---- MODULE Spec2Model ----
(***************************************************************************)
(* Model of the bk-monitor-worker metadata refresh tasks (package task:    *)
(* RefreshESStorage, RefreshInfluxdbRoute, RefreshDatasource,              *)
(* RefreshESRestore, RefreshKafkaTopicInfo) and of the BCS cluster         *)
(* service (package service: BcsClusterInfoSvc).                           *)
(*                                                                         *)
(* One behaviour of SpecRefresh is one refresh pass of one task: the main  *)
(* goroutine loads and filters the metadata rows, then starts one worker   *)
(* goroutine per retained row behind a buffered channel used as a counting *)
(* semaphore and a sync.WaitGroup.                                         *)
(***************************************************************************)
EXTENDS Integers, Sequences, FiniteSets, TLC

\* ------------------------------------------------------------- bounds
\* Rows a metadata query returns at most (storages, restores, topics).
MaxEntities == 3
\* DataSourceResultTable rows (links) a query returns at most.
MaxLinks == 2
\* Largest goroutine limit a task name is configured with.
MaxCap == 2
\* RefreshCommonResource passes run on one cluster.
MaxPasses == 2
\* Writes others make to the cluster's resources while those passes run.
MaxExtWrites == 1
\* Nodes of a cluster.
MaxNodes == 3
\* Callers of UpdateBcsClusterCloudIdConfig holding a copy of the same row.
MaxCallers == 2
\* Calls of a function made on the same inputs.
MaxCalls == 3
\* Elements of the taints list of a node.
MaxTaints == 2
\* Calls of RegisterCluster made for the same cluster id.
MaxRegistrants == 2
\* Hosts of an agent lost event.
MaxHosts == 2

Ids == 1..MaxEntities
DataIds == 1..MaxLinks

\* ------------------------------------------------------- generic helpers
Range(s) == {s[i] : i \in DOMAIN s}

SeqOfSet(S) ==
  LET RECURSIVE Build(_)
      Build(T) == IF T = {} THEN <<>>
                  ELSE LET m == CHOOSE x \in T : \A y \in T : x <= y
                       IN <<m>> \o Build(T \ {m})
  IN Build(S)

\* ------------------------------------------------------------- state
VARIABLES
  task,       \* the refresh task this pass runs
  ctx,        \* the context the task is invoked with: "active" or "canceled"
  limits,     \* config: task name -> goroutine limit
  pc,         \* position of the task's main goroutine
  loadErr,    \* the task's first metadata query returned an error
  stages,     \* the queries of this pass that have returned rows
  cand,       \* rows of the first query (allEsStorageList, dataSourceRtList, ...)
  rtRows,     \* result_table rows read by the filtering query, by table id
  dsRows,     \* data_source rows read by the data source query, by data id
  restoreRows, \* es_snapshot_restore rows in the store at the first query
  dataIdList, \* RefreshDatasource: dataIdList
  need,       \* the list the dispatch loop ranges over
  idx,        \* dispatch loop index into need
  ch,         \* number of values buffered in ch
  wg,         \* WaitGroup counter
  wpc,        \* worker goroutine position, by entity id
  result,     \* outcome of the entity's reconcile call
  calls,      \* reconcile calls made for the entity in this pass
  ret,        \* what the task returned: "none" (not yet), "nil", "err"
  crashed,    \* the process died of a panic no goroutine recovered
  refreshed,  \* RefreshInfluxdbRoute: downstream refresh calls made, in order
  storageNil, \* RefreshInfluxdbRoute: influxdbStorageList == nil
  cluster,    \* the BCSClusterInfo row the service wraps
  replaceDb,  \* the replace rules of the store: common and of the cluster
  cmpPc,      \* isSameResourceConfig: "none", "called", "done"
  cmpD,       \* isSameResourceConfig: dbConfig of the last call
  cmpO,       \* isSameResourceConfig: currConfig of the last call
  cmpRes,     \* isSameResourceConfig: result of the last call
  k8s,        \* the DataID resources of the cluster, by usage: NoRes or [rv, obj]
  k8sInit,    \* k8s when the first pass started
  kpc,        \* position of RefreshCommonResource: idle, loop, get, write, returned
  pass,       \* passes started so far
  order,      \* the order this pass ranges over bcsDatasourceRegisterInfo
  ki,         \* index into order
  resourceMap, \* the resources listed at the start of the pass, by usage
  ensure,     \* frame of ensureDataIdResource: usage, action, version token, caller's next step
  kret,       \* what the pass returned: "none", "nil", "err"
  processed,  \* usages whose loop body ended without error in this pass
  creates,    \* create calls issued in this pass, by usage
  updates,    \* update calls issued in this pass, by usage
  earlier,    \* create and update calls issued in earlier passes, by usage
  apiErr,     \* an API or store call has failed since the first pass started
  extWrites,  \* writes to the resources made by others since the first pass started
  dbRow,      \* the stored registration row of the cluster: Status, BkCloudId, region writes
  bcsNodes,   \* the nodes BCS storage lists for the cluster
  cmdbHosts,  \* CMDB: inner ip -> region of the host, or NoHost
  inf,        \* UpdateBcsClusterCloudIdConfig, by caller: its frame
  registry,   \* the registration row stored under the cluster id, or NoRow
  reg,        \* RegisterCluster: its frame
  rowOf,      \* the row each call of RegisterCluster has created under the cluster id, or NoRow
  regs,       \* RegisterCluster called several times for one cluster id: the frame of each call
  fn,         \* the function under call, "none" when there is none
  arg,        \* its receiver or arguments
  out         \* what its calls have returned, in order

rvars == <<task, ctx, limits, pc, loadErr, stages, cand, rtRows, dsRows, restoreRows,
           dataIdList,
           need, idx, ch, wg, wpc, result, calls, ret, crashed, refreshed,
           storageNil>>

cvars == <<cluster, replaceDb, cmpPc, cmpD, cmpO, cmpRes>>

kvars == <<k8s, k8sInit, kpc, pass, order, ki, resourceMap, ensure, kret, processed,
           creates, updates, earlier, apiErr, extWrites>>

gvars == <<dbRow, bcsNodes, cmdbHosts, inf>>

mvars == <<rowOf, regs>>

nvars == <<registry, reg, mvars>>

ovars == <<gvars, nvars>>

svc == <<cvars, kvars, ovars>>

fvars == <<fn, arg, out>>

vars == <<rvars, cvars, kvars, ovars, fvars>>

\* ------------------------------------------------------------- tasks
FanOutTasks == {"RefreshESStorage", "RefreshDatasource", "RefreshESRestore",
                "RefreshKafkaTopicInfo"}
Tasks == FanOutTasks \cup {"RefreshInfluxdbRoute"}

\* The name each task passes to GetGoroutineLimit.
LimitName(t) ==
  CASE t = "RefreshESStorage"      -> "refresh_es_storage"
    [] t = "RefreshInfluxdbRoute"  -> "refresh_influxdb_route"
    [] t = "RefreshDatasource"     -> "refresh_datasource"
    [] t = "RefreshESRestore"      -> "refresh_es_restore"
    [] t = "RefreshKafkaTopicInfo" -> "refresh_datasource"

LimitNames == {LimitName(t) : t \in Tasks}

\* The configured limit of a task name.
GetGoroutineLimit(name) == limits[name]

Cap == GetGoroutineLimit(LimitName(task))

\* ------------------------------------------------------ metadata rows
\* result_table rows as the filtering queries see them.
RtLive     == [exists |-> TRUE,  is_enable |-> TRUE,  is_deleted |-> FALSE]
RtDisabled == [exists |-> TRUE,  is_enable |-> FALSE, is_deleted |-> FALSE]
RtDeleted  == [exists |-> TRUE,  is_enable |-> TRUE,  is_deleted |-> TRUE]
RtMissing  == [exists |-> FALSE, is_enable |-> FALSE, is_deleted |-> FALSE]
RtKinds == {RtLive, RtDisabled, RtDeleted, RtMissing}

\* RtSelected without IsDeletedEq(false).
RtSelectedIgnoringDeleted(r) == r.exists /\ r.is_enable

\* IsEnableEq(true).IsDeletedEq(false) on result_table.
RtSelected(r) == r.exists /\ r.is_enable /\ ~r.is_deleted

\* data_source rows.
DsKinds == {[is_enable |-> TRUE,  created_from |-> "bkgse"],
            [is_enable |-> FALSE, created_from |-> "bkgse"],
            [is_enable |-> TRUE,  created_from |-> "bkdata"]}

\* DsSelected without CreatedFromEq.
DsSelectedAnyOrigin(d) == d.is_enable

\* CreatedFromEq(common.DataIdFromBkGse).IsEnableEq(true) on data_source.
DsSelected(d) == d.created_from = "bkgse" /\ d.is_enable

\* es_snapshot_restore rows.
RestoreKinds == {[total |-> 1, complete |-> 0, is_deleted |-> FALSE],
                 [total |-> 1, complete |-> 1, is_deleted |-> FALSE],
                 [total |-> 1, complete |-> 0, is_deleted |-> TRUE]}

NoRt == [i \in Ids |-> RtMissing]
NoDs == [d \in DataIds |-> [is_enable |-> FALSE, created_from |-> "bkgse"]]

NoRestore == [i \in Ids |-> [total |-> 0, complete |-> 0, is_deleted |-> TRUE]]

\* --------------------------------------------------------- main goroutine
Return(v) == pc' = "returned" /\ ret' = v

\* wg.Add(len(list)) and the start of the dispatch loop over list.
StartDispatch(list) ==
  /\ need' = list
  /\ wg' = Len(list)
  /\ idx' = 1
  /\ pc' = IF Len(list) = 0 THEN "wait" ELSE "send"

NoDispatch == UNCHANGED <<need, idx, wg>>

Workers == <<ch, wpc, result, calls, crashed>>
Influx == <<refreshed, storageNil>>

\* ---- RefreshESStorage
\* needUpdateEsStorageList: the storages of tableIdEsStorageMap met while
\* ranging over resultTableList.
ESNeedUpdate(resultTableList, esStorageTableIdList) ==
  SelectSeq(resultTableList, LAMBDA t : t \in Range(esStorageTableIdList))

\* ESLoad with the error of the query dropped.
ESLoadSwallow ==
  /\ task = "RefreshESStorage" /\ pc = "start" /\ ~crashed
  /\ \/ /\ loadErr' = TRUE
        /\ Return("nil")
        /\ UNCHANGED <<stages, cand>>
     \/ \E n \in 0..MaxEntities :
          /\ cand' = [i \in 1..n |-> i]
          /\ stages' = stages \cup {"load"}
          /\ loadErr' = FALSE
          /\ IF n = 0 THEN Return("nil") ELSE pc' = "rt_query" /\ ret' = ret
  /\ NoDispatch
  /\ UNCHANGED <<fvars, svc, ctx, task, limits, rtRows, dsRows, restoreRows, dataIdList, Workers, Influx>>

\* The query of all es storage rows, and the first emptiness check.
ESLoad ==
  /\ task = "RefreshESStorage" /\ pc = "start" /\ ~crashed
  /\ \/ /\ loadErr' = TRUE
        /\ Return("err")
        /\ UNCHANGED <<stages, cand>>
     \/ \E n \in 0..MaxEntities :
          /\ cand' = [i \in 1..n |-> i]
          /\ stages' = stages \cup {"load"}
          /\ loadErr' = FALSE
          /\ IF n = 0 THEN Return("nil") ELSE pc' = "rt_query" /\ ret' = ret
  /\ NoDispatch
  /\ UNCHANGED <<fvars, svc, ctx, task, limits, rtRows, dsRows, restoreRows, dataIdList, Workers, Influx>>

\* ESFilter with every storage kept, whatever its result table.
ESFilterKeepAll ==
  /\ task = "RefreshESStorage" /\ pc = "rt_query" /\ ~crashed
  /\ \/ /\ Return("err")
        /\ NoDispatch
        /\ UNCHANGED <<stages, rtRows>>
     \/ \E rows \in [Range(cand) -> RtKinds] :
          /\ rtRows' = [i \in Ids |-> IF i \in DOMAIN rows THEN rows[i] ELSE RtMissing]
          /\ stages' = stages \cup {"rt_query"}
          /\ StartDispatch(cand)
          /\ ret' = ret
  /\ UNCHANGED <<fvars, svc, ctx, task, limits, loadErr, cand, dsRows, restoreRows, dataIdList, Workers, Influx>>

\* The query of the enabled, not deleted result tables among the storages'
\* table ids, the second emptiness check, wg.Add.
ESFilter ==
  /\ task = "RefreshESStorage" /\ pc = "rt_query" /\ ~crashed
  /\ \/ /\ Return("err")
        /\ NoDispatch
        /\ UNCHANGED <<stages, rtRows>>
     \/ \E rows \in [Range(cand) -> RtKinds] :
          LET resultTableList == SelectSeq(cand, LAMBDA t : RtSelected(rows[t]))
              needUpdateEsStorageList == ESNeedUpdate(resultTableList, cand)
          IN /\ rtRows' = [i \in Ids |-> IF i \in DOMAIN rows THEN rows[i] ELSE RtMissing]
             /\ stages' = stages \cup {"rt_query"}
             /\ IF needUpdateEsStorageList = <<>>
                  THEN Return("nil") /\ NoDispatch
                  ELSE StartDispatch(needUpdateEsStorageList) /\ ret' = ret
  /\ UNCHANGED <<fvars, svc, ctx, task, limits, loadErr, cand, dsRows, restoreRows, dataIdList, Workers, Influx>>

\* ---- RefreshDatasource
\* DataIdList without uniqueMap.
DataIdListNoUnique(links, enabledRtList) ==
  LET kept == SelectSeq(links, LAMBDA l : l.table_id \in Range(enabledRtList))
  IN [i \in 1..Len(kept) |-> kept[i].bk_data_id]

\* dataIdList: the data ids of the links whose table is enabled, each once,
\* in order of first occurrence (uniqueMap).
DataIdList(links, enabledRtList) ==
  LET RECURSIVE Scan(_, _)
      Scan(i, acc) ==
        IF i > Len(links) THEN acc
        ELSE IF /\ links[i].table_id \in Range(enabledRtList)
                /\ links[i].bk_data_id \notin Range(acc)
             THEN Scan(i + 1, Append(acc, links[i].bk_data_id))
             ELSE Scan(i + 1, acc)
  IN Scan(1, <<>>)

\* OrderDescByLastModifyTime: last_modify_time is taken to grow with the id.
OrderDesc(S) ==
  LET asc == SeqOfSet(S)
  IN [i \in 1..Len(asc) |-> asc[Len(asc) + 1 - i]]

\* The query of all data source / result table links.
DSLoad ==
  /\ task = "RefreshDatasource" /\ pc = "start" /\ ~crashed
  /\ \/ /\ loadErr' = TRUE
        /\ Return("err")
        /\ UNCHANGED <<stages, cand>>
     \/ \E n \in 0..MaxLinks : \E ids \in [1..n -> DataIds] :
          /\ cand' = [i \in 1..n |-> [bk_data_id |-> ids[i], table_id |-> i]]
          /\ stages' = stages \cup {"load"}
          /\ loadErr' = FALSE
          /\ IF n = 0 THEN Return("nil") ELSE pc' = "rt_query" /\ ret' = ret
  /\ NoDispatch
  /\ UNCHANGED <<fvars, svc, ctx, task, limits, rtRows, dsRows, restoreRows, dataIdList, Workers, Influx>>

\* The chunked queries of the enabled result tables, then enabledRtList and
\* dataIdList. The query of a chunk that fails is skipped: either no chunk
\* answers, or the tables of the chunks that failed are seen as RtMissing.
DSRtQuery ==
  /\ task = "RefreshDatasource" /\ pc = "rt_query" /\ ~crashed
  /\ \/ /\ Return("nil")
        /\ UNCHANGED <<stages, rtRows, dataIdList>>
     \/ \E rows \in [{l.table_id : l \in Range(cand)} -> RtKinds] :
          LET rtList == [i \in 1..Len(cand) |-> cand[i].table_id]
              enabledRtList == SelectSeq(rtList, LAMBDA t : RtSelected(rows[t]))
          IN /\ rtRows' = [i \in Ids |-> IF i \in DOMAIN rows THEN rows[i] ELSE RtMissing]
             /\ stages' = stages \cup {"rt_query"}
             /\ IF enabledRtList = <<>>
                  THEN Return("nil") /\ UNCHANGED dataIdList
                  ELSE /\ dataIdList' = DataIdList(cand, enabledRtList)
                       /\ pc' = "ds_query"
                       /\ ret' = ret
  /\ NoDispatch
  /\ UNCHANGED <<fvars, svc, ctx, task, limits, loadErr, cand, dsRows, restoreRows, Workers, Influx>>

\* The query of the enabled data sources created from gse among dataIdList.
DSQuery ==
  /\ task = "RefreshDatasource" /\ pc = "ds_query" /\ ~crashed
  /\ \/ /\ Return("err")
        /\ NoDispatch
        /\ UNCHANGED <<stages, dsRows>>
     \/ \E rows \in [Range(dataIdList) -> DsKinds] :
          LET dataSourceList ==
                OrderDesc({d \in Range(dataIdList) : DsSelected(rows[d])})
          IN /\ dsRows' = [d \in DataIds |-> IF d \in DOMAIN rows THEN rows[d] ELSE NoDs[d]]
             /\ stages' = stages \cup {"ds_query"}
             /\ IF dataSourceList = <<>>
                  THEN Return("nil") /\ NoDispatch
                  ELSE StartDispatch(dataSourceList) /\ ret' = ret
  /\ UNCHANGED <<fvars, svc, ctx, task, limits, loadErr, cand, rtRows, restoreRows, dataIdList, Workers, Influx>>

\* ---- RefreshESRestore
\* RestoreLoad with every restore of the query kept, done or not.
RestoreLoadKeepDone ==
  /\ task = "RefreshESRestore" /\ pc = "start" /\ ~crashed
  /\ \/ /\ loadErr' = TRUE
        /\ Return("err")
        /\ NoDispatch
        /\ UNCHANGED <<stages, cand, restoreRows>>
     \/ \E n \in 0..MaxEntities : \E rows \in [1..n -> RestoreKinds] :
          LET restoreList == SelectSeq([i \in 1..n |-> i],
                                       LAMBDA r : rows[r].is_deleted # TRUE)
          IN /\ restoreRows' = [i \in Ids |-> IF i \in 1..n THEN rows[i] ELSE NoRestore[i]]
             /\ cand' = restoreList
             /\ stages' = stages \cup {"load"}
             /\ loadErr' = FALSE
             /\ IF restoreList = <<>>
                  THEN Return("nil") /\ NoDispatch
                  ELSE StartDispatch(restoreList) /\ ret' = ret
  /\ UNCHANGED <<fvars, svc, ctx, task, limits, rtRows, dsRows, dataIdList, Workers, Influx>>

\* The query of the restores that are not deleted, and notDoneRestores.
RestoreLoad ==
  /\ task = "RefreshESRestore" /\ pc = "start" /\ ~crashed
  /\ \/ /\ loadErr' = TRUE
        /\ Return("err")
        /\ NoDispatch
        /\ UNCHANGED <<stages, cand, restoreRows>>
     \/ \E n \in 0..MaxEntities : \E rows \in [1..n -> RestoreKinds] :
          LET restoreList == SelectSeq([i \in 1..n |-> i],
                                       LAMBDA r : rows[r].is_deleted # TRUE)
              notDoneRestores ==
                SelectSeq(restoreList, LAMBDA r : rows[r].total # rows[r].complete)
          IN /\ restoreRows' = [i \in Ids |-> IF i \in 1..n THEN rows[i] ELSE NoRestore[i]]
             /\ cand' = restoreList
             /\ stages' = stages \cup {"load"}
             /\ loadErr' = FALSE
             /\ IF notDoneRestores = <<>>
                  THEN Return("nil") /\ NoDispatch
                  ELSE StartDispatch(notDoneRestores) /\ ret' = ret
  /\ UNCHANGED <<fvars, svc, ctx, task, limits, rtRows, dsRows, dataIdList, Workers, Influx>>

\* ---- RefreshKafkaTopicInfo
\* The query of all kafka topic rows; there is no emptiness check.
KafkaLoad ==
  /\ task = "RefreshKafkaTopicInfo" /\ pc = "start" /\ ~crashed
  /\ \/ /\ loadErr' = TRUE
        /\ Return("err")
        /\ NoDispatch
        /\ UNCHANGED <<stages, cand>>
     \/ \E n \in 0..MaxEntities :
          /\ cand' = [i \in 1..n |-> i]
          /\ stages' = stages \cup {"load"}
          /\ loadErr' = FALSE
          /\ StartDispatch([i \in 1..n |-> i])
          /\ ret' = ret
  /\ UNCHANGED <<fvars, svc, ctx, task, limits, rtRows, dsRows, restoreRows, dataIdList, Workers, Influx>>

\* ---- the dispatch loop shared by the four tasks
\* Send on a channel that never fills.
SendUnbounded ==
  /\ pc = "send" /\ ~crashed
  /\ ch' = ch + 1
  /\ pc' = "go"
  /\ UNCHANGED <<fvars, svc, ctx, task, limits, loadErr, stages, cand, rtRows, dsRows, restoreRows,
                 dataIdList, need, idx, wg, wpc, result, calls, ret, crashed, Influx>>

\* Send with room for one value more than cap.
SendAtCap ==
  /\ pc = "send" /\ ~crashed
  /\ ch <= Cap
  /\ ch' = ch + 1
  /\ pc' = "go"
  /\ UNCHANGED <<fvars, svc, ctx, task, limits, loadErr, stages, cand, rtRows, dsRows, restoreRows,
                 dataIdList, need, idx, wg, wpc, result, calls, ret, crashed, Influx>>

\* ch <- true: blocks while the channel holds cap values (with cap 0 the
\* channel is unbuffered and no receiver is ever waiting at this point).
Send ==
  /\ pc = "send" /\ ~crashed
  /\ ch < Cap
  /\ ch' = ch + 1
  /\ pc' = "go"
  /\ UNCHANGED <<fvars, svc, ctx, task, limits, loadErr, stages, cand, rtRows, dsRows, restoreRows,
                 dataIdList, need, idx, wg, wpc, result, calls, ret, crashed, Influx>>

\* go func(...): the worker of need[idx] starts; the loop moves on.
Go ==
  /\ pc = "go" /\ ~crashed
  /\ wpc' = [wpc EXCEPT ![need[idx]] = "running"]
  /\ idx' = idx + 1
  /\ pc' = IF idx + 1 > Len(need) THEN "wait" ELSE "send"
  /\ UNCHANGED <<fvars, svc, ctx, task, limits, loadErr, stages, cand, rtRows, dsRows, restoreRows,
                 dataIdList, need, ch, wg, result, calls, ret, crashed, Influx>>

\* Wait without the wait.
WaitNoBarrier ==
  /\ pc = "wait" /\ ~crashed
  /\ Return("nil")
  /\ UNCHANGED <<fvars, svc, ctx, task, limits, loadErr, stages, cand, rtRows, dsRows, restoreRows,
                 dataIdList, need, idx, ch, wg, wpc, result, calls, crashed, Influx>>

\* Wait handing a worker's error to the caller.
WaitReportsError ==
  /\ pc = "wait" /\ ~crashed
  /\ wg = 0
  /\ Return(IF \E e \in Ids : result[e] = "err" THEN "err" ELSE "nil")
  /\ UNCHANGED <<fvars, svc, ctx, task, limits, loadErr, stages, cand, rtRows, dsRows, restoreRows,
                 dataIdList, need, idx, ch, wg, wpc, result, calls, crashed, Influx>>

\* wg.Wait() and return nil.
Wait ==
  /\ pc = "wait" /\ ~crashed
  /\ wg = 0
  /\ Return("nil")
  /\ UNCHANGED <<fvars, svc, ctx, task, limits, loadErr, stages, cand, rtRows, dsRows, restoreRows,
                 dataIdList, need, idx, ch, wg, wpc, result, calls, crashed, Influx>>

\* ---- the worker goroutine of one entity
Outcomes == {"ok", "err", "panic"}

\* The reconcile call (ManageESStorage, RefreshOuterConfig, GetCompleteDocCount,
\* RefreshTopicInfo): it returns nil, returns an error, or panics. Either
\* result is only logged.
WorkerReconcile(e) ==
  /\ wpc[e] = "running" /\ ~crashed
  /\ \E o \in Outcomes : result' = [result EXCEPT ![e] = o]
  /\ calls' = [calls EXCEPT ![e] = @ + 1]
  /\ wpc' = [wpc EXCEPT ![e] = "deferred"]
  /\ UNCHANGED <<fvars, svc, ctx, task, limits, pc, loadErr, stages, cand, rtRows, dsRows, restoreRows,
                 dataIdList, need, idx, ch, wg, ret, crashed, Influx>>

\* WorkerRelease leaving its value in the channel.
WorkerReleaseKeepsSlot(e) ==
  /\ wpc[e] = "deferred" /\ ~crashed
  /\ wpc' = [wpc EXCEPT ![e] = "released"]
  /\ UNCHANGED <<fvars, svc, ctx, task, limits, pc, loadErr, stages, cand, rtRows, dsRows, restoreRows,
                 dataIdList, need, idx, ch, wg, result, calls, ret, crashed, Influx>>

\* The deferred <-ch.
WorkerRelease(e) ==
  /\ wpc[e] = "deferred" /\ ~crashed
  /\ ch > 0
  /\ ch' = ch - 1
  /\ wpc' = [wpc EXCEPT ![e] = "released"]
  /\ UNCHANGED <<fvars, svc, ctx, task, limits, pc, loadErr, stages, cand, rtRows, dsRows, restoreRows,
                 dataIdList, need, idx, wg, result, calls, ret, crashed, Influx>>

\* The deferred wg.Done().
WorkerDone(e) ==
  /\ wpc[e] = "released" /\ ~crashed
  /\ wg' = wg - 1
  /\ wpc' = [wpc EXCEPT ![e] = "done"]
  /\ UNCHANGED <<fvars, svc, ctx, task, limits, pc, loadErr, stages, cand, rtRows, dsRows, restoreRows,
                 dataIdList, need, idx, ch, result, calls, ret, crashed, Influx>>

\* The worker's deferred function does not call recover(), and the recover()
\* deferred by the task runs in the main goroutine only: once the deferred
\* function of a panicking worker has run, the runtime ends the process.
WorkerCrash(e) ==
  /\ wpc[e] = "done" /\ result[e] = "panic" /\ ~crashed
  /\ crashed' = TRUE
  /\ UNCHANGED <<fvars, svc, ctx, task, limits, pc, loadErr, stages, cand, rtRows, dsRows, restoreRows,
                 dataIdList, need, idx, ch, wg, wpc, result, calls, ret, Influx>>

\* ---- RefreshInfluxdbRoute
\* InfluxStep returning the error of a failed query.
InfluxStepAborts(at, next, name) ==
  /\ task = "RefreshInfluxdbRoute" /\ pc = at /\ ~crashed
  /\ \/ /\ pc' = "returned"
        /\ ret' = "err"
        /\ refreshed' = refreshed
        /\ loadErr' = (loadErr \/ at = "start")
        /\ storageNil' = storageNil
     \/ /\ pc' = next
        /\ ret' = ret
        /\ refreshed' = Append(refreshed, name)
        /\ loadErr' = loadErr
        /\ storageNil' = (storageNil /\ at # "influx_storage")
  /\ UNCHANGED <<fvars, svc, ctx, task, limits, stages, cand, rtRows, dsRows, restoreRows, dataIdList,
                 need, idx, wg, Workers>>

\* One query-then-refresh step: a failed query is logged and its refresh skipped.
InfluxStep(at, next, name) ==
  /\ task = "RefreshInfluxdbRoute" /\ pc = at /\ ~crashed
  /\ pc' = next
  /\ \/ /\ refreshed' = refreshed
        /\ loadErr' = (loadErr \/ at = "start")
        /\ storageNil' = storageNil
     \/ /\ refreshed' = Append(refreshed, name)
        /\ loadErr' = loadErr
        /\ storageNil' = (storageNil /\ at # "influx_storage")
  /\ UNCHANGED <<fvars, svc, ctx, task, limits, stages, cand, rtRows, dsRows, restoreRows, dataIdList,
                 need, idx, wg, Workers, ret>>

InfluxHost    == InfluxStep("start", "influx_cluster", "host_info")
InfluxCluster == InfluxStep("influx_cluster", "influx_storage", "cluster_info")
InfluxStorage == InfluxStep("influx_storage", "influx_vm", "storage")
InfluxVm      == InfluxStep("influx_vm", "influx_version", "vm_router")

\* models.RefreshRouterVersion: called whatever the earlier steps did; its
\* error is logged.
InfluxVersion ==
  /\ task = "RefreshInfluxdbRoute" /\ pc = "influx_version" /\ ~crashed
  /\ pc' = "influx_outer"
  /\ refreshed' = Append(refreshed, "version")
  /\ UNCHANGED <<fvars, svc, ctx, task, limits, loadErr, stages, cand, rtRows, dsRows, restoreRows,
                 dataIdList, need, idx, wg, Workers, ret, storageNil>>

\* RefreshInfluxDBStorageOuterDependence, after a second query of the storages
\* when the first left influxdbStorageList nil.
InfluxOuter ==
  /\ task = "RefreshInfluxdbRoute" /\ pc = "influx_outer" /\ ~crashed
  /\ pc' = "influx_tag"
  /\ \/ /\ storageNil
        /\ refreshed' = refreshed
     \/ /\ refreshed' = Append(refreshed, "outer_dependence")
  /\ UNCHANGED <<fvars, svc, ctx, task, limits, loadErr, stages, cand, rtRows, dsRows, restoreRows,
                 dataIdList, need, idx, wg, Workers, ret, storageNil>>

\* The tag step, then return nil.
InfluxTag ==
  /\ task = "RefreshInfluxdbRoute" /\ pc = "influx_tag" /\ ~crashed
  /\ Return("nil")
  /\ \/ refreshed' = refreshed
     \/ refreshed' = Append(refreshed, "tag")
  /\ UNCHANGED <<fvars, svc, ctx, task, limits, loadErr, stages, cand, rtRows, dsRows, restoreRows,
                 dataIdList, need, idx, wg, Workers, storageNil>>

\* ------------------------------------------------------------ documents
\* A value held in a Go map[string]interface{}, with its dynamic type. The
\* object of an unstructured.Unstructured is a function from keys to such
\* values.
Str(s)   == [t |-> "string", v |-> s]
Int64(i) == [t |-> "int64", v |-> i]
\* map[string]interface{}
Msi(m)   == [t |-> "msi", m |-> m]
\* map[string]string
Mss(m)   == [t |-> "mss", m |-> m]

EmptyMap == [k \in {} |-> Str("")]

WithKey(m, k, v) == [x \in DOMAIN m \cup {k} |-> IF x = k THEN v ELSE m[x]]
Without(m, k) == [x \in DOMAIN m \ {k} |-> m[x]]

\* reflect.TypeOf(v).Kind() == reflect.Map
IsMapKind(v) == v.t \in {"msi", "mss"}

\* vMap, _ := v.(map[string]interface{}): the nil map unless the dynamic type
\* of v is exactly map[string]interface{}.
AssertMsi(v) == IF v.t = "msi" THEN v.m ELSE EmptyMap

\* v == val on two interface values, v not of a map type: the same dynamic
\* type and the same value.
IfaceEq(v, val) == v.t = val.t /\ v.v = val.v

RECURSIVE isSameMapConfig(_, _)
isSameMapConfig(source, target) ==
  \A k \in DOMAIN source :
    /\ k \in DOMAIN target
    /\ IF IsMapKind(source[k])
         THEN /\ IsMapKind(target[k])
              /\ isSameMapConfig(AssertMsi(source[k]), AssertMsi(target[k]))
         ELSE IfaceEq(source[k], target[k])

isSameResourceConfig(dbConfig, currConfig) == isSameMapConfig(dbConfig, currConfig)

\* What the API server hands back for a stored value: JSON knows one map type.
RECURSIVE JsonValue(_)
JsonValue(v) ==
  IF IsMapKind(v) THEN Msi([k \in DOMAIN v.m |-> JsonValue(v.m[k])]) ELSE v

JsonObject(obj) == [k \in DOMAIN obj |-> JsonValue(obj[k])]

\* ------------------------------------------------- the datasource catalog
BcsDataTypes == {"k8s_metric", "custom_metric", "k8s_event"}

bcsDatasourceRegisterInfo ==
  [u \in BcsDataTypes |->
    CASE u = "k8s_metric" ->
           [EtlConfig |-> "bk_standard_v2_time_series", ReportClassName |-> "TimeSeriesGroup",
            DatasourceName |-> "K8sMetricDataID", IsSpitMeasurement |-> TRUE,
            IsSystem |-> TRUE, Usage |-> "metric"]
      [] u = "custom_metric" ->
           [EtlConfig |-> "bk_standard_v2_time_series", ReportClassName |-> "TimeSeriesGroup",
            DatasourceName |-> "CustomMetricDataID", IsSpitMeasurement |-> TRUE,
            IsSystem |-> FALSE, Usage |-> "metric"]
      [] u = "k8s_event" ->
           [EtlConfig |-> "bk_standard_v2_event", ReportClassName |-> "EventGroup",
            DatasourceName |-> "K8sEventDataID", IsSpitMeasurement |-> FALSE,
            IsSystem |-> TRUE, Usage |-> "event"]]

\* strings.ToLower on the datasource names of the catalog.
ToLower(name) ==
  CASE name = "K8sMetricDataID"    -> "k8smetricdataid"
    [] name = "CustomMetricDataID" -> "custommetricdataid"
    [] name = "K8sEventDataID"     -> "k8seventdataid"
    [] name = "CustomEventDataID"  -> "customeventdataid"

\* strconv.Itoa
Digits == <<"0", "1", "2", "3", "4", "5", "6", "7", "8", "9">>
RECURSIVE Itoa(_)
Itoa(n) ==
  IF n < 0 THEN "-" \o Itoa(0 - n)
  ELSE IF n < 10 THEN Digits[n + 1]
  ELSE Itoa(n \div 10) \o Digits[(n % 10) + 1]

\* cfg.BcsClusterBkEnvLabel
BcsClusterBkEnvLabel == ""
\* BkEnv of a cluster row that is NULL.
NilEnv == "<nil>"

bkEnvLabel(b) == IF b.BkEnv # NilEnv THEN b.BkEnv ELSE BcsClusterBkEnvLabel

composeDataidResourceName(b, name) ==
  IF bkEnvLabel(b) # "" THEN bkEnvLabel(b) \o "-" \o name ELSE name

composeDataidResourceLabel(b, labels) ==
  IF bkEnvLabel(b) # "" THEN WithKey(labels, "bk_env", Str(bkEnvLabel(b))) ELSE labels

\* The replace rules of one type: the common ones overridden by the cluster's.
MergeReplace(common, ofCluster) ==
  [k \in DOMAIN common \cup DOMAIN ofCluster |->
     IF k \in DOMAIN ofCluster THEN ofCluster[k] ELSE common[k]]

DataIdOf(b, register) ==
  CASE register.DatasourceName = "K8sMetricDataID"    -> b.K8sMetricDataID
    [] register.DatasourceName = "CustomMetricDataID" -> b.CustomMetricDataID
    [] register.DatasourceName = "K8sEventDataID"     -> b.K8sEventDataID
    [] register.DatasourceName = "CustomEventDataID"  -> b.CustomEventDataID
    [] OTHER -> 0

makeConfig(b, register, rules) ==
  [apiVersion |-> Str("monitoring.bk.tencent.com/v1beta1"),
   kind       |-> Str("DataID"),
   metadata   |-> Msi([name   |-> Str(composeDataidResourceName(b, ToLower(register.DatasourceName))),
                       labels |-> Msi(composeDataidResourceLabel(b,
                                    [usage    |-> Str(register.Usage),
                                     isCommon |-> Str("true"),
                                     isSystem |-> Str(IF register.IsSystem THEN "true" ELSE "false")]))]),
   spec       |-> Msi([dataID |-> Int64(DataIdOf(b, register)),
                       labels |-> Mss([bcs_cluster_id |-> Str(b.ClusterID),
                                       bk_biz_id      |-> Str(Itoa(b.BkBizId))]),
                       metricReplace    |-> Msi(MergeReplace(rules.common.metric, rules.ofCluster.metric)),
                       dimensionReplace |-> Msi(MergeReplace(rules.common.dimension, rules.ofCluster.dimension))])]

\* ------------------------------------------------ inputs of the service
Clusters ==
  {[ClusterID |-> "BCS-K8S-00001", BkBizId |-> biz, BkEnv |-> env,
    K8sMetricDataID |-> 101, CustomMetricDataID |-> 102, K8sEventDataID |-> 103,
    CustomEventDataID |-> 0] : biz \in {2, 15}, env \in {NilEnv, "stag"}}

NoRules == [metric |-> EmptyMap, dimension |-> EmptyMap]
ReplaceDbs ==
  {[common |-> NoRules, ofCluster |-> NoRules],
   [common |-> [metric |-> [cpu |-> Str("cpu_usage")], dimension |-> [pod |-> Str("pod_name")]],
    ofCluster |-> [metric |-> [cpu |-> Str("cpu_total")], dimension |-> EmptyMap]]}

\* The object the API server stores for a created or updated document: the
\* document I/O gives back, with the fields the server adds.
Stored(obj, rv) ==
  LET j == JsonObject(obj)
  IN WithKey(j, "metadata",
       Msi(WithKey(WithKey(j.metadata.m, "resourceVersion", Str(Itoa(rv))),
                   "uid", Str("uid"))))

\* Replace, in an object, the value at a path of two or three keys.
Set2(obj, k1, k2, v) == WithKey(obj, k1, Msi(WithKey(obj[k1].m, k2, v)))
Set3(obj, k1, k2, k3, v) == Set2(obj, k1, k2, Msi(WithKey(obj[k1].m[k2].m, k3, v)))
Del3(obj, k1, k2, k3) == Set2(obj, k1, k2, Msi(Without(obj[k1].m[k2].m, k3)))

\* Objects a cluster may hold under the name of a desired document: as stored,
\* with keys of its own, or differing in one place.
ObservedVariants(desired) ==
  LET s == Stored(desired, 1)
  IN {s,
      WithKey(Set3(s, "spec", "labels", "extra", Str("x")), "status", Msi([phase |-> Str("ok")])),
      Set2(s, "spec", "dataID", Int64(999)),
      Set2(s, "spec", "dataID", Str("101")),
      Set3(s, "spec", "labels", "bk_biz_id", Str("7")),
      Set3(s, "spec", "labels", "bcs_cluster_id", Str("BCS-K8S-00002")),
      Del3(s, "spec", "labels", "bk_biz_id"),
      Set2(s, "spec", "labels", Str("none")),
      Set3(s, "metadata", "labels", "usage", Str("log")),
      Del3(s, "metadata", "labels", "isSystem"),
      Set3(s, "spec", "metricReplace", "cpu", Str("cpu_other")),
      Without(s, "spec"),
      WithKey(s, "spec", Str("none")),
      WithKey(s, "kind", Msi([name |-> Str("DataID")])),
      WithKey(s, "kind", Str("DataIDList"))}

\* ------------------------------------------- isSameResourceConfig alone
InitCompare ==
  /\ cluster \in Clusters
  /\ replaceDb \in ReplaceDbs
  /\ cmpPc = "called"
  /\ \E u \in BcsDataTypes :
       /\ cmpD = makeConfig(cluster, bcsDatasourceRegisterInfo[u], replaceDb)
       /\ cmpO \in ObservedVariants(cmpD)
  /\ cmpRes = FALSE

Compare ==
  /\ cmpPc = "called"
  /\ cmpRes' = isSameResourceConfig(cmpD, cmpO)
  /\ cmpPc' = "done"
  /\ UNCHANGED <<fvars, cluster, replaceDb, cmpD, cmpO, rvars, kvars, ovars>>

\* ------------------------------------------- RefreshCommonResource
NoRes == [rv |-> 0, obj |-> EmptyMap]
NoEnsure == [usage |-> "", action |-> "", rv |-> 0, after |-> ""]
Zero == [u \in BcsDataTypes |-> 0]

\* The orders a range over the catalog (a Go map) may take.
Orders == {o \in [1..Cardinality(BcsDataTypes) -> BcsDataTypes] :
             \A i, j \in DOMAIN o : i # j => o[i] # o[j]}

\* dataIdConfig of a usage.
Desired(u) == makeConfig(cluster, bcsDatasourceRegisterInfo[u], replaceDb)

\* Objects the cluster may hold for a usage at version rv.
ClusterObjects(u, rv) ==
  LET s == Stored(Desired(u), rv)
  IN {s,
      Set2(s, "spec", "dataID", Int64(999)),
      Set3(s, "spec", "labels", "bk_biz_id", Str("7"))}

\* Resources the cluster may hold for a usage when the passes begin.
ClusterObjectsAt(u) == {[rv |-> 1, obj |-> o] : o \in ClusterObjects(u, 1)}

KReturn(v) ==
  /\ kpc' = "returned"
  /\ kret' = v
  /\ order' = <<>>
  /\ ki' = 0
  /\ ensure' = NoEnsure

\* ListK8sResource and resourceMap.
RCList ==
  /\ kpc \in {"idle", "returned"}
  /\ pass < MaxPasses
  /\ pass' = pass + 1
  /\ earlier' = [creates |-> [u \in BcsDataTypes |-> earlier.creates[u] + creates[u]],
                 updates |-> [u \in BcsDataTypes |-> earlier.updates[u] + updates[u]]]
  /\ creates' = Zero
  /\ updates' = Zero
  /\ processed' = {}
  /\ \/ /\ apiErr' = TRUE
        /\ KReturn("err")
        /\ UNCHANGED resourceMap
     \/ /\ resourceMap' = k8s
        /\ \E o \in Orders : order' = o
        /\ ki' = 1
        /\ kpc' = "loop"
        /\ kret' = "none"
        /\ UNCHANGED <<apiErr, ensure>>
  /\ UNCHANGED <<fvars, rvars, cvars, ovars, k8s, k8sInit, extWrites>>

\* One turn of the loop over the catalog up to the call of
\* ensureDataIdResource, or the return after the last register.
RCLoop ==
  /\ kpc = "loop"
  /\ IF ki > Len(order)
       THEN /\ KReturn("nil")
            /\ UNCHANGED <<processed, apiErr>>
       ELSE LET u == order[ki]
            IN \/ /\ apiErr' = TRUE
                  /\ KReturn("err")
                  /\ UNCHANGED processed
               \/ /\ resourceMap[u] = NoRes
                  /\ ensure' = [usage |-> u, action |-> "update", rv |-> 0, after |-> "return"]
                  /\ kpc' = "get"
                  /\ UNCHANGED <<processed, apiErr, ki, order, kret>>
               \/ /\ resourceMap[u] # NoRes
                  /\ IF ~isSameResourceConfig(Desired(u), resourceMap[u].obj)
                       THEN /\ ensure' = [usage |-> u, action |-> "update", rv |-> 0,
                                          after |-> "continue"]
                            /\ kpc' = "get"
                            /\ UNCHANGED <<processed, ki>>
                       ELSE /\ ki' = ki + 1
                            /\ processed' = processed \cup {u}
                            /\ UNCHANGED <<ensure, kpc>>
                  /\ UNCHANGED <<apiErr, order, kret>>
  /\ UNCHANGED <<fvars, rvars, cvars, ovars, k8s, k8sInit, pass, resourceMap, creates, updates, earlier,
                 extWrites>>

\* EnsureGet taking every failed fetch for a missing resource.
EnsureGetCreateOnAnyError ==
  /\ kpc = "get"
  /\ \/ /\ ensure' = [ensure EXCEPT !.action = "create"]
        /\ kpc' = "write"
        /\ UNCHANGED <<apiErr, order, ki, kret>>
     \/ /\ k8s[ensure.usage] # NoRes
        /\ ensure' = [ensure EXCEPT !.rv = k8s[ensure.usage].rv]
        /\ kpc' = "write"
        /\ UNCHANGED <<apiErr, order, ki, kret>>
  /\ UNCHANGED <<fvars, rvars, cvars, ovars, k8s, k8sInit, pass, resourceMap, processed, creates, updates,
                 earlier, extWrites>>

\* EnsureGet handing the update the resourceVersion of the listed resource.
EnsureGetTokenFromList ==
  /\ kpc = "get"
  /\ \/ /\ apiErr' = TRUE
        /\ KReturn("err")
     \/ /\ k8s[ensure.usage] = NoRes
        /\ ensure' = [ensure EXCEPT !.action = "create"]
        /\ kpc' = "write"
        /\ UNCHANGED <<apiErr, order, ki, kret>>
     \/ /\ k8s[ensure.usage] # NoRes
        /\ ensure' = [ensure EXCEPT !.rv = IF resourceMap[ensure.usage] = NoRes
                                              THEN 0 ELSE resourceMap[ensure.usage].rv]
        /\ kpc' = "write"
        /\ UNCHANGED <<apiErr, order, ki, kret>>
  /\ UNCHANGED <<fvars, rvars, cvars, ovars, k8s, k8sInit, pass, resourceMap, processed, creates, updates,
                 earlier, extWrites>>

\* ensureDataIdResource: GetK8sResource. Not found selects create; any other
\* error is returned; a found resource hands its resourceVersion to the update.
EnsureGet ==
  /\ kpc = "get"
  /\ \/ /\ apiErr' = TRUE
        /\ KReturn("err")
     \/ /\ k8s[ensure.usage] = NoRes
        /\ ensure' = [ensure EXCEPT !.action = "create"]
        /\ kpc' = "write"
        /\ UNCHANGED <<apiErr, order, ki, kret>>
     \/ /\ k8s[ensure.usage] # NoRes
        /\ ensure' = [ensure EXCEPT !.rv = k8s[ensure.usage].rv]
        /\ kpc' = "write"
        /\ UNCHANGED <<apiErr, order, ki, kret>>
  /\ UNCHANGED <<fvars, rvars, cvars, ovars, k8s, k8sInit, pass, resourceMap, processed, creates, updates,
                 earlier, extWrites>>

\* ensureDataIdResource: UpdateK8sResource or CreateK8sResource, and what the
\* caller does next. The server accepts an update that carries the current
\* resourceVersion of an existing resource, and a create of an absent one.
EnsureWrite ==
  /\ kpc = "write"
  /\ LET u == ensure.usage
     IN /\ creates' = [creates EXCEPT ![u] = @ + (IF ensure.action = "create" THEN 1 ELSE 0)]
        /\ updates' = [updates EXCEPT ![u] = @ + (IF ensure.action = "update" THEN 1 ELSE 0)]
        /\ \/ /\ apiErr' = TRUE
              /\ KReturn("err")
              /\ UNCHANGED <<k8s, processed>>
           \/ /\ IF ensure.action = "update"
                   THEN k8s[u] # NoRes /\ k8s[u].rv = ensure.rv
                   ELSE k8s[u] = NoRes
              /\ k8s' = [k8s EXCEPT ![u] = [rv |-> k8s[u].rv + 1,
                                            obj |-> Stored(Desired(u), k8s[u].rv + 1)]]
              /\ processed' = processed \cup {u}
              /\ IF ensure.after = "return"
                   THEN KReturn("nil")
                   ELSE /\ ki' = ki + 1
                        /\ kpc' = (IF ensure.after = "init" THEN "init_loop" ELSE "loop")
                        /\ ensure' = NoEnsure
                        /\ UNCHANGED <<order, kret>>
              /\ UNCHANGED apiErr
  /\ UNCHANGED <<fvars, rvars, cvars, ovars, k8sInit, pass, resourceMap, earlier, extWrites>>

\* InitResource: the nil check and the start of the range over the catalog.
InitResource ==
  /\ kpc \in {"idle", "returned"}
  /\ pass < MaxPasses
  /\ pass' = pass + 1
  /\ earlier' = [creates |-> [u \in BcsDataTypes |-> earlier.creates[u] + creates[u]],
                 updates |-> [u \in BcsDataTypes |-> earlier.updates[u] + updates[u]]]
  /\ creates' = Zero
  /\ updates' = Zero
  /\ processed' = {}
  /\ \/ /\ apiErr' = TRUE
        /\ KReturn("err")
     \/ /\ \E o \in Orders : order' = o
        /\ ki' = 1
        /\ kpc' = "init_loop"
        /\ kret' = "none"
        /\ UNCHANGED <<apiErr, ensure>>
  /\ UNCHANGED <<fvars, rvars, cvars, ovars, k8s, k8sInit, resourceMap, extWrites>>

\* InitResource: one turn of the loop up to the call of ensureDataIdResource,
\* which is made for every register, or the return after the last one.
InitResourceLoop ==
  /\ kpc = "init_loop"
  /\ IF ki > Len(order)
       THEN /\ KReturn("nil")
            /\ UNCHANGED apiErr
       ELSE \/ /\ apiErr' = TRUE
               /\ KReturn("err")
            \/ /\ ensure' = [usage |-> order[ki], action |-> "update", rv |-> 0,
                              after |-> "init"]
               /\ kpc' = "get"
               /\ UNCHANGED <<apiErr, ki, order, kret>>
  /\ UNCHANGED <<fvars, rvars, cvars, ovars, k8s, k8sInit, pass, resourceMap, processed, creates,
                 updates, earlier, extWrites>>

\* Somebody else deletes or rewrites a resource of the cluster.
ExternalWrite ==
  /\ pass >= 1
  /\ extWrites < MaxExtWrites
  /\ extWrites' = extWrites + 1
  /\ \E u \in BcsDataTypes :
       \/ /\ k8s[u] # NoRes
          /\ k8s' = [k8s EXCEPT ![u] = NoRes]
       \/ k8s' = [k8s EXCEPT ![u] =
                    [rv |-> k8s[u].rv + 1,
                     obj |-> Set2(Stored(Desired(u), k8s[u].rv + 1), "spec", "dataID", Int64(999))]]
  /\ UNCHANGED <<fvars, rvars, cvars, ovars, k8sInit, kpc, pass, order, ki, resourceMap, ensure, kret,
                 processed, creates, updates, earlier, apiErr>>

\* ------------------------------------- UpdateBcsClusterCloudIdConfig
Callers == 1..MaxCallers

\* BkCloudId is a *int: nil, or a pointer to a region.
NilCloud == {}
CloudPtr(c) == {c}
Regions == {0, 1}
Statuses == {"running", "deleted"}

\* Node ips as NodeIp() gives them; "" for a node without an address.
NodeIps == {"", "10.0.0.1", "10.0.0.2", "10.0.0.3"}
\* What CMDB holds under an inner ip: no host, or the host of one region.
NoHost == {}
HostIn(c) == {c}

\* The node lists of a cluster: no address twice.
NodeLists ==
  UNION {{l \in [1..n -> NodeIps] :
            \A i, j \in 1..n : (i # j /\ l[i] # "") => l[i] # l[j]} : n \in 0..MaxNodes}

NoIpMap == [ip \in {} |-> 0]

\* The addresses one getHostByIp call takes at most.
IpSplitSize == 100

\* Node lists around one, two and three batches of addresses: every gap-th
\* node has no address (none when gap is 0), the others take the addresses
\* in turn.
BatchNodeLists ==
  LET ips == <<"10.0.0.1", "10.0.0.2", "10.0.0.3">>
  IN {[i \in 1..n |-> IF gap # 0 /\ i % gap = 0 THEN "" ELSE ips[(i % 3) + 1]] :
        n \in {0, 1, IpSplitSize - 1, IpSplitSize, IpSplitSize + 1,
               2 * IpSplitSize, 2 * IpSplitSize + 1, 2 * IpSplitSize + MaxNodes},
        gap \in {0, 2, IpSplitSize + 1}}

NoFrame ==
  [pc |-> "idle", Status |-> "", BkCloudId |-> NilCloud, had |-> NilCloud, apiNodes |-> <<>>,
   ipSplits |-> <<>>, ipMap |-> NoIpMap, fetches |-> 0, lookups |-> 0, writes |-> 0,
   assigned |-> NilCloud, ret |-> "none"]

\* The orders a range over a Go map with the keys S may take.
MapOrders(S) == {o \in [1..Cardinality(S) -> S] : \A i, j \in DOMAIN o : i # j => o[i] # o[j]}

\* cloudCount: the nodes whose ip is in ipMap, counted by region.
CloudCount(apiNodes, ipMap) ==
  LET hit == {i \in DOMAIN apiNodes : apiNodes[i] \in DOMAIN ipMap}
  IN [c \in {ipMap[apiNodes[i]] : i \in hit} |->
        Cardinality({i \in hit : ipMap[apiNodes[i]] = c})]

\* MaxScan with the first region met kept.
MaxScanFirstMet(cloudCount, o, i, maxCountCloudId, maxCount) ==
  IF Len(o) = 0 THEN maxCountCloudId ELSE o[1]

\* The scan for maxCountCloudId: both start at 0; a region takes over when
\* its count is greater than maxCount.
RECURSIVE MaxScan(_, _, _, _, _)
MaxScan(cloudCount, o, i, maxCountCloudId, maxCount) ==
  IF i > Len(o) THEN maxCountCloudId
  ELSE IF cloudCount[o[i]] > maxCount
         THEN MaxScan(cloudCount, o, i + 1, o[i], cloudCount[o[i]])
         ELSE MaxScan(cloudCount, o, i + 1, maxCountCloudId, maxCount)

InfReturn(p, v) == [inf[p] EXCEPT !.pc = "returned", !.ret = v]

\* A caller loads the row and wraps it: NewBcsClusterInfoSvc(obj).
RegionLoad(p) ==
  /\ inf[p].pc = "idle"
  /\ inf' = [inf EXCEPT ![p] = [@ EXCEPT !.pc = "loaded", !.Status = dbRow.Status,
                                          !.BkCloudId = dbRow.BkCloudId,
                                          !.had = dbRow.BkCloudId]]
  /\ UNCHANGED <<fvars, rvars, cvars, kvars, nvars, dbRow, bcsNodes, cmdbHosts>>

\* UpdateBcsClusterCloudIdConfig with the test of status and region left out.
UpdateBcsClusterCloudIdConfigUnguarded(p) ==
  /\ inf[p].pc = "loaded"
  /\ \/ inf' = [inf EXCEPT ![p] = [InfReturn(p, "err") EXCEPT !.fetches = @ + 1]]
     \/ inf' = [inf EXCEPT ![p] = [@ EXCEPT !.pc = "fetched", !.fetches = @ + 1,
                                             !.apiNodes = bcsNodes]]
  /\ UNCHANGED <<fvars, rvars, cvars, kvars, nvars, dbRow, bcsNodes, cmdbHosts>>

\* UpdateBcsClusterCloudIdConfig up to FetchK8sNodeListByCluster: a row that
\* is not running or has a region returns nil at once.
UpdateBcsClusterCloudIdConfig(p) ==
  /\ inf[p].pc = "loaded"
  /\ IF inf[p].Status # "running" \/ inf[p].BkCloudId # NilCloud
       THEN inf' = [inf EXCEPT ![p] = InfReturn(p, "nil")]
       ELSE \/ inf' = [inf EXCEPT ![p] = [InfReturn(p, "err") EXCEPT !.fetches = @ + 1]]
            \/ inf' = [inf EXCEPT ![p] = [@ EXCEPT !.pc = "fetched", !.fetches = @ + 1,
                                                    !.apiNodes = bcsNodes]]
  /\ UNCHANGED <<fvars, rvars, cvars, kvars, nvars, dbRow, bcsNodes, cmdbHosts>>

\* AppendIp with a batch taken as open while it holds IpSplitSize addresses.
AppendIpOverfull(ipSplits, NodeIp) ==
  IF NodeIp = "" THEN ipSplits
  ELSE LET splitsSize == Len(ipSplits)
       IN IF splitsSize # 0 /\ Len(ipSplits[splitsSize]) <= IpSplitSize
            THEN [ipSplits EXCEPT ![splitsSize] = Append(@, NodeIp)]
            ELSE Append(ipSplits, <<NodeIp>>)

\* The body of the loop that builds ipSplits, for one node.
AppendIp(ipSplits, NodeIp) ==
  IF NodeIp = "" THEN ipSplits
  ELSE LET splitsSize == Len(ipSplits)
       IN IF splitsSize # 0 /\ Len(ipSplits[splitsSize]) < IpSplitSize
            THEN [ipSplits EXCEPT ![splitsSize] = Append(@, NodeIp)]
            ELSE Append(ipSplits, <<NodeIp>>)

\* The loop over the nodes lo..hi in order, from the ipSplits built so far
\* (the first half of the nodes, then the second from what the first built;
\* the test on first has it evaluated before the second half starts).
RECURSIVE IpSplitsOver(_, _, _, _)
IpSplitsOver(apiNodes, lo, hi, ipSplits) ==
  IF lo > hi THEN ipSplits
  ELSE IF lo = hi THEN AppendIp(ipSplits, apiNodes[lo])
  ELSE LET mid == (lo + hi) \div 2
           first == IpSplitsOver(apiNodes, lo, mid, ipSplits)
       IN IF Len(first) >= 0 THEN IpSplitsOver(apiNodes, mid + 1, hi, first) ELSE first

IpSplits(apiNodes) == IpSplitsOver(apiNodes, 1, Len(apiNodes), <<>>)

\* RegionLookup going on to the tally after a call that failed, with the
\* hosts of the batches before it.
RegionLookupSwallow(p) ==
  /\ inf[p].pc = "fetched"
  /\ LET ipSplits == IpSplits(inf[p].apiNodes)
     IN \E k \in 0..Len(ipSplits) :
          LET ips == UNION {Range(ipSplits[b]) : b \in 1..k}
              ipMap == [ip \in {x \in ips : cmdbHosts[x] # NoHost} |->
                          CHOOSE c \in cmdbHosts[ip] : TRUE]
          IN inf' = [inf EXCEPT ![p] =
                       [@ EXCEPT !.pc = "tally", !.ipSplits = ipSplits,
                                 !.lookups = @ + (IF k = Len(ipSplits) THEN k ELSE k + 1),
                                 !.ipMap = ipMap]]
  /\ UNCHANGED <<fvars, rvars, cvars, kvars, nvars, dbRow, bcsNodes, cmdbHosts>>

\* ipSplits and ipMap: the nodes with an address are looked up in CMDB, one
\* getHostByIp call for each batch in turn; the first call that fails
\* returns its error, the batches after it not looked up.
RegionLookup(p) ==
  /\ inf[p].pc = "fetched"
  /\ LET ipSplits == IpSplits(inf[p].apiNodes)
     IN \E k \in 0..Len(ipSplits) :
          LET ips == UNION {Range(ipSplits[b]) : b \in 1..k}
              ipMap == [ip \in {x \in ips : cmdbHosts[x] # NoHost} |->
                          CHOOSE c \in cmdbHosts[ip] : TRUE]
          IN IF k = Len(ipSplits)
               THEN inf' = [inf EXCEPT ![p] =
                              [@ EXCEPT !.pc = "tally", !.ipSplits = ipSplits,
                                        !.lookups = @ + k, !.ipMap = ipMap]]
               ELSE inf' = [inf EXCEPT ![p] =
                              [InfReturn(p, "err") EXCEPT !.ipSplits = ipSplits,
                                                          !.lookups = @ + k + 1,
                                                          !.ipMap = ipMap]]
  /\ UNCHANGED <<fvars, rvars, cvars, kvars, nvars, dbRow, bcsNodes, cmdbHosts>>

\* cloudCount, the scan for the region with the most nodes, and the Update
\* of the row's BkCloudId.
RegionWrite(p) ==
  /\ inf[p].pc = "tally"
  /\ LET cloudCount == CloudCount(inf[p].apiNodes, inf[p].ipMap)
     IN \E o \in MapOrders(DOMAIN cloudCount) :
          LET maxCountCloudId == MaxScan(cloudCount, o, 1, 0, 0)
          IN \/ /\ inf' = [inf EXCEPT ![p] = [InfReturn(p, "err") EXCEPT
                                                !.assigned = CloudPtr(maxCountCloudId),
                                                !.BkCloudId = CloudPtr(maxCountCloudId)]]
                /\ UNCHANGED dbRow
             \/ /\ inf' = [inf EXCEPT ![p] = [InfReturn(p, "nil") EXCEPT
                                                !.assigned = CloudPtr(maxCountCloudId),
                                                !.BkCloudId = CloudPtr(maxCountCloudId),
                                                !.writes = @ + 1]]
                /\ dbRow' = [dbRow EXCEPT !.BkCloudId = CloudPtr(maxCountCloudId),
                                          !.writes = @ + 1]
  /\ UNCHANGED <<fvars, rvars, cvars, kvars, nvars, bcsNodes, cmdbHosts>>

\* ------------------------------------------------------ RegisterCluster
NoRow == [exists |-> FALSE, K8sMetricDataID |-> 0, CustomMetricDataID |-> 0,
          K8sEventDataID |-> 0]

\* The bkBizId strings a caller passes, and strconv.ParseInt on them.
BizIdArgs == {"2", "x"}
ParseIntFails(str) == str \notin {"2"}

\* Ids the data source service and the group services hand back.
DataSourceIds == {501}
GroupDataIds == {501, 601}

NoReg ==
  [pc |-> "idle", before |-> NoRow, order |-> <<>>, ki |-> 0,
   dsCalls |-> Zero, groupCalls |-> Zero, dsId |-> Zero, groupId |-> Zero,
   cluster |-> NoRow, rowCreates |-> 0, rowUpdates |-> 0, ret |-> "none"]

RegReturn(v) == [reg EXCEPT !.pc = "returned", !.ret = v]

\* cluster.<DatasourceName> = bkDataId: the switch on register.DatasourceName.
RecordDataId(row, register, bkDataId) ==
  CASE register.DatasourceName = "K8sMetricDataID" ->
         [row EXCEPT !.K8sMetricDataID = bkDataId]
    [] register.DatasourceName = "CustomMetricDataID" ->
         [row EXCEPT !.CustomMetricDataID = bkDataId]
    [] register.DatasourceName = "K8sEventDataID" ->
         [row EXCEPT !.K8sEventDataID = bkDataId]
    [] OTHER -> row

\* RegisterCluster with the count of the rows of the cluster id ignored.
RegisterClusterNoCount ==
  /\ reg.pc = "idle"
  /\ \E bkBizId \in BizIdArgs :
       \/ /\ reg' = [RegReturn("err") EXCEPT !.before = registry]
          /\ UNCHANGED registry
       \/ /\ ~ParseIntFails(bkBizId)
          /\ registry' = [NoRow EXCEPT !.exists = TRUE]
          /\ \E o \in Orders :
               reg' = [reg EXCEPT !.pc = "loop", !.before = registry, !.order = o, !.ki = 1,
                                  !.cluster = [NoRow EXCEPT !.exists = TRUE],
                                  !.rowCreates = @ + 1]
  /\ UNCHANGED <<fvars, rvars, cvars, kvars, gvars, mvars>>

\* RegisterCluster up to cluster.Create: the parse of bkBizId, the count of
\* the rows of the cluster id, the gateway url, the new row.
RegisterCluster ==
  /\ reg.pc = "idle"
  /\ \E bkBizId \in BizIdArgs :
       \/ /\ ParseIntFails(bkBizId) \/ registry.exists
          /\ reg' = [RegReturn("err") EXCEPT !.before = registry]
          /\ UNCHANGED registry
       \/ /\ ~ParseIntFails(bkBizId)
          /\ reg' = [RegReturn("err") EXCEPT !.before = registry]
          /\ UNCHANGED registry
       \/ /\ ~ParseIntFails(bkBizId)
          /\ ~registry.exists
          /\ registry' = [NoRow EXCEPT !.exists = TRUE]
          /\ \E o \in Orders :
               reg' = [reg EXCEPT !.pc = "loop", !.before = registry, !.order = o, !.ki = 1,
                                  !.cluster = [NoRow EXCEPT !.exists = TRUE],
                                  !.rowCreates = @ + 1]
  /\ UNCHANGED <<fvars, rvars, cvars, kvars, gvars, mvars>>

\* The loop over the catalog: CreateDataSource for the usage, or the end of
\* the loop.
RegisterDataSource ==
  /\ reg.pc = "loop"
  /\ IF reg.ki > Len(reg.order)
       THEN reg' = [reg EXCEPT !.pc = "update"]
       ELSE LET usage == reg.order[reg.ki]
            IN \/ reg' = [RegReturn("err") EXCEPT !.dsCalls[usage] = @ + 1]
               \/ \E id \in DataSourceIds :
                    reg' = [reg EXCEPT !.pc = "group", !.dsCalls[usage] = @ + 1,
                                       !.dsId[usage] = id]
  /\ UNCHANGED <<fvars, rvars, cvars, kvars, gvars, mvars, registry>>

\* RegisterCustomGroup keeping the id of the data source.
RegisterCustomGroupKeepsDsId ==
  /\ reg.pc = "group"
  /\ LET usage == reg.order[reg.ki]
         register == bcsDatasourceRegisterInfo[usage]
     IN \/ reg' = [RegReturn("err") EXCEPT !.groupCalls[usage] = @ + 1]
        \/ \E id \in GroupDataIds :
             reg' = [reg EXCEPT !.pc = "loop", !.ki = @ + 1,
                                !.groupCalls[usage] = @ + 1,
                                !.groupId[usage] = id,
                                !.cluster = RecordDataId(reg.cluster, register,
                                                         reg.dsId[usage])]
  /\ UNCHANGED <<fvars, rvars, cvars, kvars, gvars, mvars, registry>>

\* CreateCustomGroup of the time series or event group service, and the
\* record of group.BkDataID in the field of the usage.
RegisterCustomGroup ==
  /\ reg.pc = "group"
  /\ LET usage == reg.order[reg.ki]
         register == bcsDatasourceRegisterInfo[usage]
     IN \/ reg' = [RegReturn("err") EXCEPT !.groupCalls[usage] = @ + 1]
        \/ \E id \in GroupDataIds :
             reg' = [reg EXCEPT !.pc = "loop", !.ki = @ + 1,
                                !.groupCalls[usage] = @ + 1,
                                !.groupId[usage] = id,
                                !.cluster = RecordDataId(reg.cluster, register, id)]
  /\ UNCHANGED <<fvars, rvars, cvars, kvars, gvars, mvars, registry>>

\* cluster.Update of the three data id fields, and the return of the row.
RegisterUpdate ==
  /\ reg.pc = "update"
  /\ \/ /\ reg' = [RegReturn("err") EXCEPT !.rowUpdates = @ + 1]
        /\ UNCHANGED registry
     \/ /\ reg' = [RegReturn("ok") EXCEPT !.rowUpdates = @ + 1]
        /\ registry' = reg.cluster
  /\ UNCHANGED <<fvars, rvars, cvars, kvars, gvars, mvars>>

\* ------------------------------- RegisterCluster, several calls for one id
Registrants == 1..MaxRegistrants

\* The frame of one call: count is what the Count() query read (-1 before
\* it), cluster the row the call holds, done the usages provisioned.
NoCallFrame ==
  [pc |-> "idle", ret |-> "none", why |-> "none", count |-> -1, created |-> FALSE,
   cluster |-> NoRow, done |-> {}]

NoRegistrants ==
  /\ rowOf = [p \in Registrants |-> NoRow]
  /\ regs = [p \in Registrants |-> NoCallFrame]

RegsReturn(p, v, why) == [regs[p] EXCEPT !.pc = "returned", !.ret = v, !.why = why]

\* Count(): the rows stored under the cluster id.
RowCount == Cardinality({p \in Registrants : rowOf[p].exists})

\* RegisterClusterCount taking the cluster id for free whatever the count.
RegisterClusterCountIgnored(p) ==
  /\ regs[p].pc = "idle"
  /\ \E bkBizId \in BizIdArgs :
       \/ /\ ParseIntFails(bkBizId)
          /\ regs' = [regs EXCEPT ![p] = RegsReturn(p, "err", "parse")]
       \/ /\ ~ParseIntFails(bkBizId)
          /\ regs' = [regs EXCEPT ![p] = RegsReturn(p, "err", "db")]
       \/ /\ ~ParseIntFails(bkBizId)
          /\ regs' = [regs EXCEPT ![p] = [@ EXCEPT !.pc = "create", !.count = RowCount]]
  /\ UNCHANGED <<fvars, rvars, cvars, kvars, gvars, registry, reg, rowOf>>

\* RegisterCluster up to the test of count: the parse of bkBizId, the Count()
\* query, and the rejection of a cluster id that has a row.
RegisterClusterCount(p) ==
  /\ regs[p].pc = "idle"
  /\ \E bkBizId \in BizIdArgs :
       \/ /\ ParseIntFails(bkBizId)
          /\ regs' = [regs EXCEPT ![p] = RegsReturn(p, "err", "parse")]
       \/ /\ ~ParseIntFails(bkBizId)
          /\ regs' = [regs EXCEPT ![p] = RegsReturn(p, "err", "db")]
       \/ /\ ~ParseIntFails(bkBizId)
          /\ regs' = [regs EXCEPT ![p] =
                        IF RowCount # 0
                          THEN [RegsReturn(p, "err", "duplicate") EXCEPT !.count = RowCount]
                          ELSE [@ EXCEPT !.pc = "create", !.count = RowCount]]
  /\ UNCHANGED <<fvars, rvars, cvars, kvars, gvars, registry, reg, rowOf>>

\* The gateway url and cluster.Create(db): the insert of the row this call
\* built. Nothing the call does ties the insert to the count it read.
RegisterClusterCreate(p) ==
  /\ regs[p].pc = "create"
  /\ \/ /\ regs' = [regs EXCEPT ![p] = RegsReturn(p, "err", "db")]
        /\ UNCHANGED rowOf
     \/ /\ rowOf' = [rowOf EXCEPT ![p] = [NoRow EXCEPT !.exists = TRUE]]
        /\ regs' = [regs EXCEPT ![p] = [@ EXCEPT !.pc = "provision", !.created = TRUE,
                                                  !.cluster = [NoRow EXCEPT !.exists = TRUE]]]
  /\ UNCHANGED <<fvars, rvars, cvars, kvars, gvars, registry, reg>>

\* RegisterClusterProvision deleting the row when a creation fails.
RegisterClusterProvisionRollsBack(p) ==
  /\ regs[p].pc = "provision"
  /\ IF regs[p].done = BcsDataTypes
       THEN /\ regs' = [regs EXCEPT ![p] = [@ EXCEPT !.pc = "update"]]
            /\ UNCHANGED rowOf
       ELSE \E usage \in BcsDataTypes \ regs[p].done :
              \/ /\ regs' = [regs EXCEPT ![p] = RegsReturn(p, "err", "provision")]
                 /\ rowOf' = [rowOf EXCEPT ![p] = NoRow]
              \/ /\ \E id \in GroupDataIds :
                      regs' = [regs EXCEPT ![p] =
                                 [@ EXCEPT !.done = @ \cup {usage},
                                           !.cluster = RecordDataId(@, bcsDatasourceRegisterInfo[usage], id)]]
                 /\ UNCHANGED rowOf
  /\ UNCHANGED <<fvars, rvars, cvars, kvars, gvars, registry, reg>>

\* One turn of the loop over the catalog, in the order the map gives:
\* CreateDataSource and CreateCustomGroup for the usage, either of which may
\* fail and end the call, and the record of the group's data id in the row the
\* call holds; after the last usage, on to the update.
RegisterClusterProvision(p) ==
  /\ regs[p].pc = "provision"
  /\ IF regs[p].done = BcsDataTypes
       THEN regs' = [regs EXCEPT ![p] = [@ EXCEPT !.pc = "update"]]
       ELSE \E usage \in BcsDataTypes \ regs[p].done :
              \/ regs' = [regs EXCEPT ![p] = RegsReturn(p, "err", "provision")]
              \/ \E id \in GroupDataIds :
                   regs' = [regs EXCEPT ![p] =
                              [@ EXCEPT !.done = @ \cup {usage},
                                        !.cluster = RecordDataId(@, bcsDatasourceRegisterInfo[usage], id)]]
  /\ UNCHANGED <<fvars, rvars, cvars, kvars, gvars, registry, reg, rowOf>>

\* cluster.Update of the three data id fields of the call's row.
RegisterClusterUpdate(p) ==
  /\ regs[p].pc = "update"
  /\ \/ /\ regs' = [regs EXCEPT ![p] = RegsReturn(p, "err", "db")]
        /\ UNCHANGED rowOf
     \/ /\ regs' = [regs EXCEPT ![p] = RegsReturn(p, "ok", "none")]
        /\ rowOf' = [rowOf EXCEPT ![p] = regs[p].cluster]
  /\ UNCHANGED <<fvars, rvars, cvars, kvars, gvars, registry, reg>>

\* ------------------------------------------------------- package target
\* A string is the sequence of its bytes; a uint64 is its eight bytes, the
\* least significant first.
RECURSIVE XorBits(_, _, _)
XorBits(a, b, n) ==
  IF n = 0 THEN 0
  ELSE ((a + b) % 2) + 2 * XorBits(a \div 2, b \div 2, n - 1)

\* hash/fnv: offset64 = 14695981039346656037 = 0xcbf29ce484222325.
offset64 == <<37, 35, 34, 132, 228, 156, 242, 203>>

\* hash *= prime64 modulo 2^64, prime64 = 1099511628211 = 2^40 + 435.
RECURSIVE MulPrimeFrom(_, _, _)
MulPrimeFrom(h, i, carry) ==
  IF i > Len(h) THEN <<>>
  ELSE LET t == h[i] * 435 + (IF i > 5 THEN h[i - 5] ELSE 0) + carry
       IN <<t % 256>> \o MulPrimeFrom(h, i + 1, t \div 256)

\* h.Write of fnv.New64a: for each byte, hash ^= byte, then hash *= prime64.
RECURSIVE fnvWrite(_, _)
fnvWrite(h, data) ==
  IF data = <<>> THEN h
  ELSE fnvWrite(MulPrimeFrom([h EXCEPT ![1] = XorBits(@, Head(data), 8)], 1, 0),
                Tail(data))

\* num > math.MaxInt32
GtMaxInt32(num) == num[4] >= 128 \/ \E i \in 5..Len(num) : num[i] # 0

\* num / 50 on uint64: long division from the most significant byte.
RECURSIVE Div50From(_, _, _)
Div50From(num, i, rem) ==
  IF i = 0 THEN <<>>
  ELSE LET t == rem * 256 + num[i]
       IN Div50From(num, i - 1, t % 50) \o <<t \div 50>>

Div50(num) == Div50From(num, Len(num), 0)

\* avoidOverflow with one division at most.
avoidOverflowOnce(num) == IF GtMaxInt32(num) THEN Div50(num) ELSE num

RECURSIVE avoidOverflow(_)
avoidOverflow(num) ==
  IF GtMaxInt32(num) THEN avoidOverflow(Div50(num)) ELSE num

\* fmt.Sprintf("%d", n)
RECURSIVE FmtD(_)
FmtD(n) ==
  IF n < 0 THEN <<45>> \o FmtD(0 - n)
  ELSE IF n < 10 THEN <<48 + n>>
  ELSE FmtD(n \div 10) \o <<48 + (n % 10)>>

\* The h.Write calls of generateTaskID over t.Labels.
RECURSIVE WriteLabels(_, _)
WriteLabels(h, ls) ==
  IF ls = <<>> THEN h
  ELSE WriteLabels(fnvWrite(fnvWrite(h, Head(ls).Name), Head(ls).Value), Tail(ls))

\* generateTaskID with t.NodeName written too.
generateTaskIDWithNodeName(t) ==
  LET h1 == fnvWrite(offset64, FmtD(t.DataID))
      h2 == fnvWrite(h1, t.Address)
      h3 == fnvWrite(h2, t.Path)
      h4 == WriteLabels(h3, t.Labels)
      h5 == fnvWrite(h4, FmtD(t.Meta.Index))
      h6 == fnvWrite(h5, t.Namespace)
      h7 == fnvWrite(h6, t.Meta.Name)
  IN avoidOverflow(fnvWrite(h7, t.NodeName))

generateTaskID(t) ==
  LET h1 == fnvWrite(offset64, FmtD(t.DataID))
      h2 == fnvWrite(h1, t.Address)
      h3 == fnvWrite(h2, t.Path)
      h4 == WriteLabels(h3, t.Labels)
      h5 == fnvWrite(h4, FmtD(t.Meta.Index))
      h6 == fnvWrite(h5, t.Namespace)
      h7 == fnvWrite(h6, t.Meta.Name)
  IN avoidOverflow(h7)

\* The metric targets of the model: the fields generateTaskID reads, and of
\* the others NodeName and Meta.Namespace.
MetricTargets ==
  [DataID : {1, 12}, Address : {<<97>>, <<50, 97>>}, Path : {<<>>, <<47>>},
   Labels : {<<>>, <<[Name |-> <<106, 111, 98>>, Value |-> <<120>>]>>},
   Meta : [Index : {0}, Name : {<<109>>}, Namespace : {<<110>>, <<111>>}],
   Namespace : {<<110>>}, NodeName : {<<120>>, <<121>>}]

\* A call of generateTaskID on the i-th target.
GenerateTaskID(i) ==
  /\ fn = "generateTaskID" /\ Len(out) < MaxCalls
  /\ out' = Append(out, [i |-> i, id |-> generateTaskID(arg[i])])
  /\ UNCHANGED <<fn, arg, rvars, svc>>

\* The uint64 inputs of the model: around math.MaxInt32, around 50 times it,
\* and up to the largest uint64.
U64Inputs ==
  {<<b1, b2, b3, b4, b5, b6, b7, b8>> :
     b1 \in {0, 255}, b2 \in {0, 255}, b3 \in {0, 255}, b4 \in {0, 127, 128, 255},
     b5 \in {0, 24, 25, 255}, b6 \in {0, 255}, b7 \in {0, 255}, b8 \in {0, 255}}

\* A call of avoidOverflow.
AvoidOverflow ==
  /\ fn = "avoidOverflow" /\ out = <<>>
  /\ out' = <<avoidOverflow(arg)>>
  /\ UNCHANGED <<fn, arg, rvars, svc>>

\* ------------------------------------------------------- processParams
\* net.ParseIP(ip) and To4 of its result, on the address strings of the
\* model: dotted IPv4, IPv6, IPv4 mapped in IPv6, and text that is no address.
ParseIP(ip) ==
  CASE ip \in {"10.0.0.1", "10.0.0.2", "10.0.0.3"} -> [nil |-> FALSE, To4Nil |-> FALSE]
    [] ip \in {"fe80::1", "fe80::2"}               -> [nil |-> FALSE, To4Nil |-> TRUE]
    [] ip = "::ffff:10.0.0.9"                      -> [nil |-> FALSE, To4Nil |-> FALSE]
    [] OTHER                                       -> [nil |-> TRUE,  To4Nil |-> TRUE]

isIPv6(ip) == LET parsedIp == ParseIP(ip) IN ~parsedIp.nil /\ parsedIp.To4Nil

\* The arguments of getHostByIp in the model.
HostIps == {"10.0.0.1", "fe80::1", "::ffff:10.0.0.9", "node-a"}
CloudIds == {-1, 0, 3}
IpParams == UNION {[1..n -> [Ip : HostIps, BkCloudId : CloudIds]] : n \in 0..MaxNodes}

\* cloudDict: the addresses of each cloud id, in argument order.
CloudDict(ips) ==
  [c \in {ips[i].BkCloudId : i \in DOMAIN ips} |->
     LET of == SelectSeq(ips, LAMBDA param : param.BkCloudId = c)
     IN [i \in DOMAIN of |-> of[i].Ip]]

\* CloudRules with the rule appended for every cloud id.
CloudRulesAlways(cloudId) ==
  <<[field |-> "bk_cloud_id", operator |-> "equal", value |-> cloudId]>>

\* The rule appended to ipv4Rules and ipv6Rules when cloudId != -1.
CloudRules(cloudId) ==
  IF cloudId # -1
    THEN <<[field |-> "bk_cloud_id", operator |-> "equal", value |-> cloudId]>>
    ELSE <<>>

\* The conditions one cloud id appends.
CloudConditions(cloudId, ipList) ==
  LET ipv6IPs == SelectSeq(ipList, LAMBDA ip : isIPv6(ip))
      ipv4IPs == SelectSeq(ipList, LAMBDA ip : ~isIPv6(ip))
      ipv4Rules == <<[field |-> "bk_host_innerip", operator |-> "in", value |-> ipv4IPs]>>
                     \o CloudRules(cloudId)
      ipv6Rules == <<[field |-> "bk_host_innerip_v6", operator |-> "in", value |-> ipv6IPs]>>
                     \o CloudRules(cloudId)
      ipv4Condition == [condition |-> "AND", rules |-> ipv4Rules]
      ipv6Condition == [condition |-> "AND", rules |-> ipv6Rules]
  IN (IF Len(ipv4IPs) > 0 THEN <<ipv4Condition>> ELSE <<>>)
       \o (IF Len(ipv6IPs) > 0 THEN <<ipv6Condition>> ELSE <<>>)

\* conditions: the range over cloudDict in the order o.
RECURSIVE Conditions(_, _, _)
Conditions(cloudDict, o, i) ==
  IF i > Len(o) THEN <<>>
  ELSE CloudConditions(o[i], cloudDict[o[i]]) \o Conditions(cloudDict, o, i + 1)

\* processParams, the range over cloudDict taking the order o.
processParams(bkBizID, ips, o) ==
  LET conditions == Conditions(CloudDict(ips), o, 1)
      finalCondition == IF Len(conditions) = 1
                          THEN conditions[1]
                          ELSE [condition |-> "OR", rules |-> conditions]
  IN [bk_biz_id |-> bkBizID,
      host_property_filter |-> finalCondition,
      fields |-> <<"bk_host_innerip", "bk_host_innerip_v6", "bk_cloud_id", "bk_host_id",
                   "bk_biz_id", "bk_agent_id", "bk_host_outerip", "bk_host_outerip_v6",
                   "bk_host_name", "bk_os_name", "bk_os_type", "operator",
                   "bk_bak_operator", "bk_state_name", "bk_isp_name", "bk_province_name",
                   "bk_supplier_account", "bk_state", "bk_os_version",
                   "service_template_id", "srv_status", "bk_comment", "idc_unit_name",
                   "net_device_id", "rack_id", "bk_svr_device_cls_name",
                   "svr_device_class">>,
      page |-> [limit |-> 500]]

\* A call of processParams.
ProcessParams ==
  /\ fn = "processParams" /\ out = <<>>
  /\ \E o \in MapOrders(DOMAIN CloudDict(arg.ips)) :
       out' = <<processParams(arg.bkBizID, arg.ips, o)>>
  /\ UNCHANGED <<fn, arg, rvars, svc>>

\* ------------------------------------------------------- TaintLabels
\* []interface{}
List(l) == [t |-> "list", l |-> l]

\* optionx.Options.GetString: the value under key when it is a string, the
\* empty string otherwise.
GetString(taint, key) ==
  IF key \in DOMAIN taint /\ taint[key].t = "string" THEN taint[key].v ELSE ""

\* TaintSkipped with a taint skipped as soon as one of the three is empty.
TaintSkippedAnyEmpty(key, value, effect) == key = "" \/ value = "" \/ effect = ""

\* key == "" && value == "" && effect == ""
TaintSkipped(key, value, effect) == key = "" /\ value = "" /\ effect = ""

\* The labels the loop over taints appends from element i on.
RECURSIVE TaintLoop(_, _)
TaintLoop(taints, i) ==
  IF i > Len(taints) THEN <<>>
  ELSE IF taints[i].t # "msi" THEN TaintLoop(taints, i + 1)
  ELSE LET key == GetString(taints[i].m, "key")
           value == GetString(taints[i].m, "value")
           effect == GetString(taints[i].m, "effect")
       IN IF TaintSkipped(key, value, effect)
            THEN TaintLoop(taints, i + 1)
            ELSE <<key \o "=" \o value \o ":" \o effect>> \o TaintLoop(taints, i + 1)

\* TaintLabels of a node whose Spec is the map Spec.
TaintLabels(Spec) ==
  IF "taints" \notin DOMAIN Spec THEN <<>>
  ELSE IF Spec["taints"].t # "list" THEN <<>>
  ELSE TaintLoop(Spec["taints"].l, 1)

\* The elements of a taints list in the model: maps with key, value and
\* effect present or not, a key that is no string, and an element that is no
\* map.
TaintValues(k) ==
  CASE k = "key"    -> {Str(""), Str("role"), Int64(5)}
    [] k = "value"  -> {Str(""), Str("gpu")}
    [] k = "effect" -> {Str(""), Str("NoSchedule")}

TaintElements ==
  {Str("role")} \cup
  {Msi(m) : m \in UNION {{t \in [D -> UNION {TaintValues(k) : k \in D}] :
                            \A k \in D : t[k] \in TaintValues(k)} :
                         D \in SUBSET {"key", "value", "effect"}}}

\* Node.Spec in the model: without taints, with taints that is no list, with
\* a list of up to MaxTaints elements.
NodeSpecs ==
  {EmptyMap, WithKey(EmptyMap, "taints", Str("role=gpu:NoSchedule"))} \cup
  {WithKey(EmptyMap, "taints", List(l)) :
     l \in UNION {[1..n -> TaintElements] : n \in 0..MaxTaints}}

\* A call of TaintLabels.
TaintLabelsCall ==
  /\ fn = "TaintLabels" /\ out = <<>>
  /\ out' = <<TaintLabels(arg)>>
  /\ UNCHANGED <<fn, arg, rvars, svc>>

\* ------------------------------------------------- package gse_event
\* conv.String of an int: its decimal digits.
convString(n) == FmtD(n)

\* The EventRecord AgentLostEvent.Flat appends for one host: the test of
\* host.AgentID, either assignment of target, and the record.
AgentLostRecord(host) ==
  LET target == IF host.AgentID = <<>>
                  THEN host.AgentID
                  ELSE FmtD(host.CloudID) \o <<58>> \o host.IP
  IN [EventName |-> "agent_lost",
      Target |-> target,
      Event |-> [content |-> "agent_lost"],
      EventDimension |-> [bk_target_cloud_id |-> convString(host.CloudID),
                          bk_target_ip |-> host.IP,
                          ip |-> host.IP,
                          bk_cloud_id |-> convString(host.CloudID),
                          bk_agent_id |-> host.AgentID]]

\* AgentLostEvent.Flat: the range over e.Hosts, one append for each host.
RECURSIVE FlatFrom(_, _, _)
FlatFrom(Hosts, i, records) ==
  IF i > Len(Hosts) THEN records
  ELSE FlatFrom(Hosts, i + 1, Append(records, AgentLostRecord(Hosts[i])))

Flat(e) == FlatFrom(e.Hosts, 1, <<>>)

\* The hosts json.Unmarshal gives for an event of type 2: ip "1.2" or "::1",
\* cloudid 0 or 12, agent_id absent or "a".
AgentLostHosts ==
  [IP : {<<49, 46, 50>>, <<58, 58, 49>>}, CloudID : {0, 12}, AgentID : {<<>>, <<97>>}]

AgentLostEvents ==
  {[Hosts |-> hs] : hs \in UNION {[1..n -> AgentLostHosts] : n \in 0..MaxHosts}}

\* parseSystemEvent on an event of type 2: event.Flat().
FlatCall ==
  /\ fn = "Flat" /\ out = <<>>
  /\ out' = <<Flat(arg)>>
  /\ UNCHANGED <<fn, arg, rvars, svc>>

\* ------------------------------------------------------- specification
\* No function is under call.
NoCall ==
  /\ fn = "none"
  /\ arg = <<>>
  /\ out = <<>>

\* No refresh task is running.
NoTask ==
  /\ task = "none"
  /\ ctx = "active"
  /\ limits = [n \in LimitNames |-> MaxCap]
  /\ pc = "returned"
  /\ loadErr = FALSE
  /\ stages = {}
  /\ cand = <<>>
  /\ rtRows = NoRt
  /\ dsRows = NoDs
  /\ restoreRows = NoRestore
  /\ dataIdList = <<>>
  /\ need = <<>>
  /\ idx = 1
  /\ ch = 0
  /\ wg = 0
  /\ wpc = [e \in Ids |-> "idle"]
  /\ result = [e \in Ids |-> "none"]
  /\ calls = [e \in Ids |-> 0]
  /\ ret = "none"
  /\ crashed = FALSE
  /\ refreshed = <<>>
  /\ storageNil = TRUE

\* No comparison has been asked for.
NoCompare ==
  /\ cmpPc = "none"
  /\ cmpD = EmptyMap
  /\ cmpO = EmptyMap
  /\ cmpRes = FALSE

\* No pass over a cluster's resources has started.
NoPass ==
  /\ kpc = "idle"
  /\ pass = 0
  /\ order = <<>>
  /\ ki = 0
  /\ resourceMap = [u \in BcsDataTypes |-> NoRes]
  /\ ensure = NoEnsure
  /\ kret = "none"
  /\ processed = {}
  /\ creates = Zero
  /\ updates = Zero
  /\ earlier = [creates |-> Zero, updates |-> Zero]
  /\ apiErr = FALSE
  /\ extWrites = 0

\* No region inference is under way.
NoRegion ==
  /\ dbRow = [Status |-> "running", BkCloudId |-> NilCloud, writes |-> 0]
  /\ bcsNodes = <<>>
  /\ cmdbHosts = [ip \in NodeIps \ {""} |-> NoHost]
  /\ inf = [p \in Callers |-> NoFrame]

\* No registration is under way.
NoRegister ==
  /\ registry = NoRow
  /\ reg = NoReg
  /\ NoRegistrants

\* The service is not in use.
NoService ==
  /\ cluster = CHOOSE c \in Clusters : c.BkBizId = 2 /\ c.BkEnv = NilEnv
  /\ replaceDb = [common |-> NoRules, ofCluster |-> NoRules]
  /\ NoCompare
  /\ k8s = [u \in BcsDataTypes |-> NoRes]
  /\ k8sInit = k8s
  /\ NoPass
  /\ NoRegion
  /\ NoRegister

InitRefresh ==
  /\ NoCall
  /\ task \in Tasks
  /\ ctx \in {"active", "canceled"}
  /\ limits \in [LimitNames -> 0..MaxCap]
  /\ \A n \in LimitNames :
       (task = "RefreshInfluxdbRoute" \/ n # LimitName(task)) => limits[n] = MaxCap
  /\ pc = "start"
  /\ loadErr = FALSE
  /\ stages = {}
  /\ cand = <<>>
  /\ rtRows = NoRt
  /\ dsRows = NoDs
  /\ restoreRows = NoRestore
  /\ dataIdList = <<>>
  /\ need = <<>>
  /\ idx = 1
  /\ ch = 0
  /\ wg = 0
  /\ wpc = [e \in Ids |-> "idle"]
  /\ result = [e \in Ids |-> "none"]
  /\ calls = [e \in Ids |-> 0]
  /\ ret = "none"
  /\ crashed = FALSE
  /\ refreshed = <<>>
  /\ storageNil = TRUE
  /\ NoService

NextRefresh ==
  \/ ESLoad
  \/ ESFilter
  \/ DSLoad
  \/ DSRtQuery
  \/ DSQuery
  \/ RestoreLoad
  \/ KafkaLoad
  \/ Send
  \/ Go
  \/ Wait
  \/ \E e \in Ids : WorkerReconcile(e)
  \/ \E e \in Ids : WorkerRelease(e)
  \/ \E e \in Ids : WorkerDone(e)
  \/ \E e \in Ids : WorkerCrash(e)
  \/ InfluxHost
  \/ InfluxCluster
  \/ InfluxStorage
  \/ InfluxVm
  \/ InfluxVersion
  \/ InfluxOuter
  \/ InfluxTag

SpecRefresh == InitRefresh /\ [][NextRefresh]_vars

\* The goroutine that runs the task, and the goroutine of one entity. The Go
\* scheduler runs every goroutine that can take a step: each of them is
\* weakly fair.
MainGoroutine ==
  \/ ESLoad \/ ESFilter \/ DSLoad \/ DSRtQuery \/ DSQuery \/ RestoreLoad \/ KafkaLoad
  \/ Send \/ Go \/ Wait
  \/ InfluxHost \/ InfluxCluster \/ InfluxStorage \/ InfluxVm \/ InfluxVersion
  \/ InfluxOuter \/ InfluxTag

WorkerGoroutine(e) == WorkerReconcile(e) \/ WorkerRelease(e) \/ WorkerDone(e) \/ WorkerCrash(e)

SpecRefreshFair ==
  /\ InitRefresh
  /\ [][NextRefresh]_vars
  /\ WF_vars(MainGoroutine)
  /\ \A e \in Ids : WF_vars(WorkerGoroutine(e))

\* isSameResourceConfig on the documents of a cluster.
InitSame ==
  /\ NoCall
  /\ NoTask
  /\ InitCompare
  /\ k8s = [u \in BcsDataTypes |-> NoRes]
  /\ k8sInit = k8s
  /\ NoPass
  /\ NoRegion
  /\ NoRegister

SpecCompare == InitSame /\ [][Compare]_vars

\* RefreshCommonResource passes over one cluster.
InitCluster ==
  /\ NoCall
  /\ NoTask
  /\ cluster \in {c \in Clusters : c.BkBizId = 2}
  /\ replaceDb \in {r \in ReplaceDbs : r.common # NoRules}
  /\ NoCompare
  /\ k8s \in [BcsDataTypes -> {NoRes} \cup UNION {ClusterObjectsAt(u) : u \in BcsDataTypes}]
  /\ \A u \in BcsDataTypes : k8s[u] = NoRes \/ k8s[u] \in ClusterObjectsAt(u)
  /\ k8sInit = k8s
  /\ NoPass
  /\ NoRegion
  /\ NoRegister

NextResource ==
  \/ RCList
  \/ RCLoop
  \/ EnsureGet
  \/ EnsureWrite
  \/ ExternalWrite

SpecResource == InitCluster /\ [][NextResource]_vars

\* InitResource on one cluster.
NextInit ==
  \/ InitResource
  \/ InitResourceLoop
  \/ EnsureGet
  \/ EnsureWrite
  \/ ExternalWrite

\* A cluster whose resources are absent or as InitResource would write them.
InitFresh ==
  /\ InitCluster
  /\ cluster.BkEnv = NilEnv
  /\ \A u \in BcsDataTypes : k8s[u] = NoRes \/ k8s[u].obj = Stored(Desired(u), 1)

SpecInit == InitFresh /\ [][NextInit]_vars

\* Region inference by callers that each hold a copy of the cluster's row.
NoResources ==
  /\ cluster = CHOOSE c \in Clusters : c.BkBizId = 2 /\ c.BkEnv = NilEnv
  /\ replaceDb = [common |-> NoRules, ofCluster |-> NoRules]
  /\ NoCompare
  /\ k8s = [u \in BcsDataTypes |-> NoRes]
  /\ k8sInit = k8s
  /\ NoPass

InitRegion ==
  /\ NoCall
  /\ NoTask
  /\ NoResources
  /\ NoRegister
  /\ dbRow \in [Status : Statuses, BkCloudId : {NilCloud} \cup {CloudPtr(c) : c \in Regions}, writes : {0}]
  /\ bcsNodes \in NodeLists
  /\ cmdbHosts \in [NodeIps \ {""} -> {NoHost} \cup {HostIn(c) : c \in Regions}]
  /\ inf = [p \in Callers |-> NoFrame]

\* ---- region inference on clusters of more nodes than a lookup takes
InitBatch ==
  /\ NoCall
  /\ NoTask
  /\ NoResources
  /\ NoRegister
  /\ dbRow = [Status |-> "running", BkCloudId |-> NilCloud, writes |-> 0]
  /\ bcsNodes \in BatchNodeLists
  /\ cmdbHosts \in {[ip \in NodeIps \ {""} |-> HostIn(0)],
                    [ip \in NodeIps \ {""} |-> IF ip = "10.0.0.1" THEN HostIn(1) ELSE NoHost]}
  /\ inf = [p \in Callers |-> NoFrame]

NextRegion ==
  \/ \E p \in Callers : RegionLoad(p)
  \/ \E p \in Callers : UpdateBcsClusterCloudIdConfig(p)
  \/ \E p \in Callers : RegionLookup(p)
  \/ \E p \in Callers : RegionWrite(p)

SpecRegion == InitRegion /\ [][NextRegion]_vars

SpecBatch == InitBatch /\ [][NextRegion]_vars

\* One call of RegisterCluster for a cluster id.
InitRegister ==
  /\ NoCall
  /\ NoTask
  /\ NoResources
  /\ NoRegion
  /\ registry \in {NoRow, [exists |-> TRUE, K8sMetricDataID |-> 401,
                            CustomMetricDataID |-> 402, K8sEventDataID |-> 403]}
  /\ reg = NoReg
  /\ NoRegistrants

NextRegister ==
  \/ RegisterCluster
  \/ RegisterDataSource
  \/ RegisterCustomGroup
  \/ RegisterUpdate

SpecRegister == InitRegister /\ [][NextRegister]_vars

\* Several calls of RegisterCluster for a cluster id that has no row.
InitRegistrants ==
  /\ NoCall
  /\ NoTask
  /\ NoResources
  /\ NoRegion
  /\ NoRegister

NextRegistrants ==
  \/ \E p \in Registrants : RegisterClusterCount(p)
  \/ \E p \in Registrants : RegisterClusterCreate(p)
  \/ \E p \in Registrants : RegisterClusterProvision(p)
  \/ \E p \in Registrants : RegisterClusterUpdate(p)

SpecRegistrants == InitRegistrants /\ [][NextRegistrants]_vars

\* ---- generateTaskID on two metric targets
InitTaskID ==
  /\ NoTask
  /\ NoService
  /\ fn = "generateTaskID"
  /\ arg \in MetricTargets \X MetricTargets
  /\ out = <<>>

NextTaskID == \E i \in 1..2 : GenerateTaskID(i)

SpecTaskID == InitTaskID /\ [][NextTaskID]_vars

\* ---- avoidOverflow on one uint64
InitOverflow ==
  /\ NoTask
  /\ NoService
  /\ fn = "avoidOverflow"
  /\ arg \in U64Inputs
  /\ out = <<>>

SpecOverflow == InitOverflow /\ [][AvoidOverflow]_vars

\* ---- processParams on one list of addresses
InitParams ==
  /\ NoTask
  /\ NoService
  /\ fn = "processParams"
  /\ arg \in [bkBizID : {2}, ips : IpParams]
  /\ out = <<>>

SpecParams == InitParams /\ [][ProcessParams]_vars

\* ---- TaintLabels on one node
InitTaints ==
  /\ NoTask
  /\ NoService
  /\ fn = "TaintLabels"
  /\ arg \in NodeSpecs
  /\ out = <<>>

SpecTaints == InitTaints /\ [][TaintLabelsCall]_vars

\* ---- AgentLostEvent.Flat on the hosts of an event
InitFlat ==
  /\ NoTask
  /\ NoService
  /\ fn = "Flat"
  /\ arg \in AgentLostEvents
  /\ out = <<>>

SpecFlat == InitFlat /\ [][FlatCall]_vars

\* ------------------------------------------------- properties: refresh tasks
\* The workers that hold a place in ch: started, their deferred <-ch not yet run.
InFlight == {e \in Ids : wpc[e] \in {"running", "deferred"}}

\* The entities the rows read make eligible for the reconcile of the task.
Eligible ==
  CASE task = "RefreshESStorage" ->
         {i \in Range(cand) : RtSelected(rtRows[i])}
    [] task = "RefreshDatasource" ->
         {d \in DataIds : /\ \E i \in DOMAIN cand :
                               cand[i].bk_data_id = d /\ RtSelected(rtRows[cand[i].table_id])
                          /\ DsSelected(dsRows[d])}
    [] task = "RefreshESRestore" ->
         {r \in Range(cand) : /\ restoreRows[r].is_deleted # TRUE
                              /\ restoreRows[r].total # restoreRows[r].complete}
    [] task = "RefreshKafkaTopicInfo" -> Range(cand)
    [] OTHER -> {}

NoWorkerEver == \A e \in Ids : wpc[e] = "idle" /\ calls[e] = 0 /\ result[e] = "none"

\* C1: in a fan-out task whose limit is C >= 1, at most C workers are in
\* flight (started, and their place in the semaphore not yet given back) in
\* every reachable state, whatever the number of eligible entities.
C1_InFlightAtMostCap ==
  (task \in FanOutTasks /\ Cap >= 1) => Cardinality(InFlight) <= Cap

\* The semaphore is full and the dispatch loop has entities left to send.
C1_SemaphoreFull ==
  /\ task \in FanOutTasks /\ Cap >= 1
  /\ Cardinality(InFlight) = Cap
  /\ pc = "send" /\ idx <= Len(need)
  /\ Len(need) > Cap

\* C2: a panic in the reconcile of one entity is caught at the boundary of
\* its worker: it never ends the process, and the task returns normally.
C2_PanicCaughtAtWorker ==
  (\E e \in Ids : result[e] = "panic") => ~crashed

\* A worker's panic ended the process while the task had not returned and
\* another entity was not reconciled.
C2_ProcessDied ==
  /\ crashed /\ pc # "returned"
  /\ \E e \in Range(need) : calls[e] = 0

\* C3: when a fan-out task returns nil, every eligible entity has been
\* reconciled exactly once and its worker has finished; no other entity was
\* touched.
C3_ReturnAfterAllDone ==
  (task \in FanOutTasks /\ pc = "returned" /\ ret = "nil") =>
    /\ \A e \in Eligible : calls[e] = 1 /\ wpc[e] = "done"
    /\ \A e \in Ids \ Eligible : calls[e] = 0 /\ wpc[e] = "idle"
    /\ wg = 0

\* A task returned after a fan-out over several entities.
C3_ReturnedAfterFanOut ==
  /\ task \in FanOutTasks /\ pc = "returned" /\ ret = "nil"
  /\ Cardinality(Eligible) >= 2
  /\ \A e \in Eligible : calls[e] = 1

\* C4: when the reconcile of some entities returned an error, the task still
\* returns nil, and every eligible entity was reconciled.
C4_EntityErrorsNotReturned ==
  (task \in FanOutTasks /\ pc = "returned" /\ \E e \in Ids : result[e] = "err") =>
    /\ ret = "nil"
    /\ \A e \in Eligible : calls[e] = 1 /\ wpc[e] = "done"

\* A task returned after one entity failed and another succeeded.
C4_ReturnedWithFailedEntity ==
  /\ task \in FanOutTasks /\ pc = "returned"
  /\ \E e \in Ids : result[e] = "err"
  /\ \E e \in Ids : result[e] = "ok"

EmptyCandidates ==
  CASE task = "RefreshESStorage" ->
         \/ "load" \in stages /\ cand = <<>>
         \/ "rt_query" \in stages /\ Eligible = {}
    [] task = "RefreshDatasource" ->
         \/ "load" \in stages /\ cand = <<>>
         \/ /\ "rt_query" \in stages
            /\ \A i \in DOMAIN cand : ~RtSelected(rtRows[cand[i].table_id])
         \/ "ds_query" \in stages /\ Eligible = {}
    [] task = "RefreshESRestore" -> "load" \in stages /\ Eligible = {}
    [] task = "RefreshKafkaTopicInfo" -> "load" \in stages /\ cand = <<>>
    [] OTHER -> FALSE

\* C6: once the candidate set is empty, after the load or after a filter, no
\* worker is started and no reconcile called, and the task returns nil (in
\* RefreshKafkaTopicInfo through a dispatch loop and a wait over nothing).
C6_EmptySetIsNoOp ==
  EmptyCandidates =>
    /\ NoWorkerEver /\ ch = 0 /\ wg = 0 /\ need = <<>>
    /\ \/ pc = "returned" /\ ret = "nil"
       \/ task = "RefreshKafkaTopicInfo" /\ pc = "wait" /\ ret = "none"

\* A filter emptied a candidate set that the load had filled, and the task
\* returned nil.
C6_FilteredToNothing ==
  /\ EmptyCandidates /\ cand # <<>>
  /\ pc = "returned" /\ ret = "nil"

\* ------------------------------------------------- properties: resources
\* Every key of d is in o with an equal value, maps compared key by key.
RECURSIVE DesiredWithin(_, _)
DesiredWithin(d, o) ==
  \A k \in DOMAIN d :
    /\ k \in DOMAIN o
    /\ IF IsMapKind(d[k])
         THEN IsMapKind(o[k]) /\ DesiredWithin(d[k].m, o[k].m)
         ELSE IfaceEq(d[k], o[k])

\* C10: isSameResourceConfig answers true exactly when every key of the
\* desired document is in the observed one with an equal value, at every
\* depth; keys of the observed document alone do not count.
C10_SameIffDesiredWithin ==
  cmpPc = "done" => (cmpRes = DesiredWithin(cmpD, cmpO))

\* The comparison answered true for an observed document that differs under
\* spec.labels.
C10_LabelsDifferenceMissed ==
  /\ cmpPc = "done" /\ cmpRes
  /\ ~DesiredWithin(cmpD, cmpO)

\* C7: after a pass with nobody else writing, each usage the pass processed
\* got one create and no update if it was absent, one update and no create if
\* it was present and different, and neither if it was present and equal.
C7_OneCallPerUsage ==
  (kpc = "returned" /\ extWrites = 0) =>
    \A u \in processed :
      LET absent == resourceMap[u] = NoRes
          differs == ~absent /\ ~DesiredWithin(Desired(u), resourceMap[u].obj)
      IN /\ creates[u] = (IF absent THEN 1 ELSE 0)
         /\ updates[u] = (IF differs THEN 1 ELSE 0)

\* A pass went over a usage whose resource differed and issued no update.
C7_DifferenceNotUpdated ==
  /\ kpc = "returned" /\ extWrites = 0 /\ kret = "nil"
  /\ \E u \in processed :
       /\ resourceMap[u] # NoRes
       /\ ~DesiredWithin(Desired(u), resourceMap[u].obj)
       /\ updates[u] = 0

\* C8: after two passes with no failure and nobody else writing, the second
\* pass issued no create and no update, and over both passes each resource
\* that was absent at first was created exactly once.
C8_SecondPassIsNoOp ==
  (pass = 2 /\ kpc = "returned" /\ kret = "nil" /\ ~apiErr /\ extWrites = 0) =>
    \A u \in BcsDataTypes :
      /\ creates[u] = 0 /\ updates[u] = 0
      /\ earlier.creates[u] = (IF k8sInit[u] = NoRes THEN 1 ELSE 0)

\* The second of two quiet passes created a resource.
C8_SecondPassCreated ==
  /\ pass = 2 /\ kpc = "returned" /\ kret = "nil" /\ ~apiErr /\ extWrites = 0
  /\ \E u \in BcsDataTypes : creates[u] = 1

\* C9: after a pass that returned nil, with nobody else writing, every
\* catalogued resource exists in the cluster.
C9_PassReconcilesAll ==
  (pass = 1 /\ kpc = "returned" /\ kret = "nil" /\ extWrites = 0) =>
    \A u \in BcsDataTypes : k8s[u] # NoRes

\* A pass over a cluster with several resources absent returned nil with one
\* of them still absent.
C9_ReturnedEarly ==
  /\ pass = 1 /\ kpc = "returned" /\ kret = "nil" /\ extWrites = 0
  /\ Cardinality({u \in BcsDataTypes : k8sInit[u] = NoRes}) >= 2
  /\ \E u \in BcsDataTypes : k8s[u] = NoRes

\* ------------------------------------------- properties: ensure and init
\* C11: in ensureDataIdResource a fetch that finds nothing selects the create,
\* which is issued with no update; a fetch that fails otherwise returns the
\* error with no create and no update issued.
C11_FetchSelectsAction ==
  [][/\ (kpc = "get" /\ kpc' = "write") =>
          ensure'.action = (IF k8s[ensure.usage] = NoRes THEN "create" ELSE "update")
     /\ (kpc = "get" /\ kpc' = "returned") =>
          /\ kret' = "err"
          /\ creates' = creates /\ updates' = updates /\ k8s' = k8s
     /\ (kpc = "write" /\ kpc' # "write" /\ ensure.action = "create") =>
          /\ creates' = [creates EXCEPT ![ensure.usage] = @ + 1]
          /\ updates' = updates]_vars

\* A resource that was absent has been created by one create and no update.
C11_CreatedAfterNotFound ==
  /\ extWrites = 0 /\ pass = 1
  /\ \E u \in BcsDataTypes :
       /\ k8sInit[u] = NoRes /\ k8s[u] # NoRes
       /\ creates[u] = 1 /\ updates[u] = 0

\* C12: InitResource on a cluster where a catalogued resource exists and
\* equals the desired document issues no update and no create for it.
C12_InitLeavesEqualAlone ==
  (pass = 1 /\ extWrites = 0) =>
    \A u \in BcsDataTypes :
      (k8sInit[u] # NoRes /\ DesiredWithin(Desired(u), k8sInit[u].obj)) =>
        creates[u] = 0 /\ updates[u] = 0

\* InitResource returned nil having updated a resource that was equal.
C12_EqualResourceUpdated ==
  /\ pass = 1 /\ extWrites = 0 /\ kpc = "returned" /\ kret = "nil"
  /\ \E u \in BcsDataTypes :
       /\ k8sInit[u] # NoRes /\ DesiredWithin(Desired(u), k8sInit[u].obj)
       /\ updates[u] = 1

\* ------------------------------------------- properties: region inference
\* The nodes of the caller's list that CMDB resolves, and their count by region.
Resolved(p) ==
  {i \in DOMAIN inf[p].apiNodes :
     inf[p].apiNodes[i] # "" /\ cmdbHosts[inf[p].apiNodes[i]] # NoHost}
Tally(p, c) == Cardinality({i \in Resolved(p) : c \in cmdbHosts[inf[p].apiNodes[i]]})

\* C13: a call on a row that has a region, or is not running, returns nil
\* without listing nodes, without a host lookup and without a write.
C13_SetOrNotRunningIsNoOp ==
  \A p \in Callers :
    (/\ inf[p].pc \notin {"idle", "loaded"}
     /\ (inf[p].had # NilCloud \/ inf[p].Status # "running")) =>
       /\ inf[p].pc = "returned" /\ inf[p].ret = "nil"
       /\ inf[p].fetches = 0 /\ inf[p].lookups = 0 /\ inf[p].writes = 0
       /\ inf[p].assigned = NilCloud
       /\ inf[p].BkCloudId = inf[p].had

\* A call returned on a row with a region while a node resolves to another.
C13_KeptRegionAgainstNodes ==
  \E p \in Callers :
    /\ inf[p].pc = "returned" /\ inf[p].had # NilCloud /\ inf[p].Status = "running"
    /\ dbRow.BkCloudId = inf[p].had
    /\ \E i \in DOMAIN bcsNodes :
         /\ bcsNodes[i] # "" /\ cmdbHosts[bcsNodes[i]] # NoHost
         /\ cmdbHosts[bcsNodes[i]] # inf[p].had

\* C14: whatever the interleaving of the calls for one cluster, each on its
\* own copy of the row, the stored region is written at most once.
C14_RegionWrittenAtMostOnce == dbRow.writes <= 1

\* Two callers that both loaded the row before either wrote have both written.
C14_RegionWrittenTwice ==
  /\ dbRow.writes = 2
  /\ \A p \in Callers : inf[p].pc = "returned" => inf[p].had = NilCloud

\* C15: when a node resolves to a host, the region assigned has a tally that
\* no tallied region exceeds.
C15_AssignedHasMaxTally ==
  \A p \in Callers :
    (inf[p].assigned # NilCloud /\ Resolved(p) # {}) =>
      \E c \in Regions :
        /\ inf[p].assigned = CloudPtr(c)
        /\ Tally(p, c) >= 1
        /\ \A d \in Regions : Tally(p, d) <= Tally(p, c)

\* A region with two nodes was assigned against a region with one.
C15_MajorityAssigned ==
  \E p \in Callers : \E c, d \in Regions :
    /\ inf[p].assigned = CloudPtr(c)
    /\ Tally(p, c) = 2 /\ Tally(p, d) = 1

\* ------------------------------------------- properties: registration
\* C16: RegisterCluster for a cluster id that has a row returns an error and
\* changes nothing: no row created or updated, no data source and no custom
\* group created.
C16_DuplicateRejected ==
  (reg.pc # "idle" /\ reg.before.exists) =>
    /\ reg.pc = "returned" /\ reg.ret = "err"
    /\ registry = reg.before
    /\ reg.rowCreates = 0 /\ reg.rowUpdates = 0
    /\ reg.dsCalls = Zero /\ reg.groupCalls = Zero

\* A registration of a cluster id that was registered has returned.
C16_DuplicateReturned ==
  /\ reg.pc = "returned" /\ reg.before.exists
  /\ reg.ret = "err" /\ registry = reg.before

\* C17: a RegisterCluster that succeeded made one data source call and one
\* custom group call per usage and one update of the row, and the row holds
\* for each usage the data id its group creation returned.
C17_OneProvisionPerUsage ==
  reg.ret = "ok" =>
    /\ \A u \in BcsDataTypes : reg.dsCalls[u] = 1 /\ reg.groupCalls[u] = 1
    /\ reg.rowCreates = 1 /\ reg.rowUpdates = 1
    /\ registry.exists
    /\ registry.K8sMetricDataID = reg.groupId["k8s_metric"]
    /\ registry.CustomMetricDataID = reg.groupId["custom_metric"]
    /\ registry.K8sEventDataID = reg.groupId["k8s_event"]

\* A registration succeeded where a group handed back an id of its own.
C17_RegisteredWithGroupIds ==
  /\ reg.ret = "ok"
  /\ \E u \in BcsDataTypes : reg.groupId[u] # reg.dsId[u]
  /\ registry.K8sMetricDataID = reg.groupId["k8s_metric"]

\* ------------------------------------------- properties: refresh filters
\* The storages of the load whose result table exists, is enabled and is not
\* deleted.
LiveStorages ==
  {i \in Range(cand) :
     rtRows[i].exists /\ rtRows[i].is_enable /\ ~rtRows[i].is_deleted}

\* C18: RefreshESStorage dispatches a storage only if its result table
\* exists, is enabled and is not deleted: the dispatch list holds the
\* storages with a live table and no other, no other has a worker or a
\* reconcile call, and at the return each of them was reconciled once.
C18_OnlyLiveStoragesDispatched ==
  (task = "RefreshESStorage" /\ "rt_query" \in stages) =>
    /\ Range(need) = LiveStorages
    /\ \A e \in Ids : (wpc[e] # "idle" \/ calls[e] > 0) => e \in LiveStorages
    /\ (pc = "returned" /\ ret = "nil") => \A e \in LiveStorages : calls[e] = 1

\* RefreshESStorage returned having reconciled a storage with a live table
\* and left alone one whose table is deleted.
C18_DeletedTableLeftOut ==
  /\ task = "RefreshESStorage" /\ pc = "returned" /\ ret = "nil"
  /\ \E e \in LiveStorages : calls[e] = 1
  /\ \E e \in Range(cand) :
       rtRows[e].exists /\ rtRows[e].is_enable /\ rtRows[e].is_deleted /\ calls[e] = 0

\* The links of the load whose result table is enabled and not deleted.
LiveLinks ==
  {i \in DOMAIN cand :
     LET r == rtRows[cand[i].table_id]
     IN r.exists /\ r.is_enable /\ ~r.is_deleted}

\* The first of them that carries data id d.
FirstLiveLink(d) ==
  CHOOSE i \in LiveLinks :
    /\ cand[i].bk_data_id = d
    /\ \A j \in LiveLinks : cand[j].bk_data_id = d => i <= j

C20_OnlyEnabledGseRefreshed ==
  task = "RefreshDatasource" =>
    /\ \A e \in Ids :
         (wpc[e] # "idle" \/ calls[e] > 0) =>
           /\ e \in Range(dataIdList)
           /\ dsRows[e].is_enable /\ dsRows[e].created_from = "bkgse"
           /\ calls[e] <= 1
    /\ \A i, j \in DOMAIN need : i # j => need[i] # need[j]
    /\ \A i \in DOMAIN need :
         dsRows[need[i]].is_enable /\ dsRows[need[i]].created_from = "bkgse"

\* RefreshDatasource returned having refreshed a data source created from
\* gse and left alone one of another origin.
C20_OtherOriginLeftOut ==
  /\ task = "RefreshDatasource" /\ pc = "returned" /\ ret = "nil"
  /\ \E e \in Range(dataIdList) : calls[e] = 1
  /\ \E e \in Range(dataIdList) :
       dsRows[e].is_enable /\ dsRows[e].created_from # "bkgse" /\ calls[e] = 0

\* The restores read that are not deleted and whose complete count differs
\* from their total count.
UnfinishedRestores ==
  {r \in Ids : /\ ~restoreRows[r].is_deleted
               /\ restoreRows[r].total # restoreRows[r].complete}

\* C21: RefreshESRestore polls the restores that are not deleted and whose
\* complete count differs from the total, and no other: the dispatch list
\* holds them alone, no other restore has a worker or a poll, and at the
\* return each of them was polled once.
C21_OnlyUnfinishedRestoresPolled ==
  (task = "RefreshESRestore" /\ "load" \in stages) =>
    /\ Range(need) = UnfinishedRestores
    /\ \A r \in Ids : (wpc[r] # "idle" \/ calls[r] > 0) => r \in UnfinishedRestores
    /\ (pc = "returned" /\ ret = "nil") => \A r \in UnfinishedRestores : calls[r] = 1

\* RefreshESRestore returned having polled a restore in progress and left
\* alone one whose complete count is its total.
C21_DoneRestoreLeftOut ==
  /\ task = "RefreshESRestore" /\ pc = "returned" /\ ret = "nil"
  /\ \E r \in UnfinishedRestores : calls[r] = 1
  /\ \E r \in Ids :
       /\ ~restoreRows[r].is_deleted
       /\ restoreRows[r].total = restoreRows[r].complete /\ restoreRows[r].total > 0
       /\ calls[r] = 0

\* C22: changing the limit configured for another fan-out task leaves the
\* cap of the running task as it is.
C22_CapUnderOwnName ==
  task \in FanOutTasks =>
    \A u \in FanOutTasks \ {task} : \A c \in 0..MaxCap :
      [limits EXCEPT ![LimitName(u)] = c][LimitName(task)] = Cap

\* RefreshKafkaTopicInfo is held at one worker in flight by the limit of
\* refresh_datasource, with topics left to send.
C22_KafkaHeldByDatasourceLimit ==
  /\ task = "RefreshKafkaTopicInfo"
  /\ limits[LimitName("RefreshDatasource")] = 1
  /\ pc = "send" /\ idx <= Len(need)
  /\ ch = 1 /\ Cardinality(InFlight) = 1

\* C23: a task invoked with a context that is canceled dispatches no
\* reconcile: no worker is started and no reconcile called.
C23_CanceledAtEntryNoDispatch ==
  ctx = "canceled" => NoWorkerEver /\ need = <<>>

\* A task invoked with a canceled context returned after reconciling an entity.
C23_DispatchedThoughCanceled ==
  /\ ctx = "canceled" /\ task \in FanOutTasks
  /\ pc = "returned" /\ ret = "nil"
  /\ \E e \in Ids : calls[e] = 1

\* ------------------------------------------- properties: task ids
\* The fields generateTaskID is to depend on are equal in t and u.
SameIdentity(t, u) ==
  /\ t.DataID = u.DataID /\ t.Address = u.Address /\ t.Path = u.Path
  /\ t.Labels = u.Labels /\ t.Meta.Index = u.Meta.Index
  /\ t.Namespace = u.Namespace /\ t.Meta.Name = u.Meta.Name

\* C24: two calls of generateTaskID on targets with the same data id,
\* address, path, labels in order, monitor index, namespace and monitor name
\* return the same task id, whatever the other fields and however often the
\* call is repeated.
C24_SameIdentitySameTaskID ==
  fn = "generateTaskID" =>
    \A a, b \in DOMAIN out :
      SameIdentity(arg[out[a].i], arg[out[b].i]) => out[a].id = out[b].id

\* Two targets that differ in NodeName and Meta.Namespace alone got one task
\* id, and so did a repeated call.
C24_OtherFieldsDiffer ==
  /\ fn = "generateTaskID" /\ Len(out) = 3
  /\ SameIdentity(arg[1], arg[2])
  /\ arg[1].NodeName # arg[2].NodeName
  /\ arg[1].Meta.Namespace # arg[2].Meta.Namespace
  /\ out[1].i = 1 /\ out[2].i = 2 /\ out[3].i = 1
  /\ out[1].id = out[2].id /\ out[3].id = out[1].id

\* num after k divisions by 50.
RECURSIVE DivTimes(_, _)
DivTimes(num, k) == IF k = 0 THEN num ELSE DivTimes(Div50(num), k - 1)

\* q * 50 + rem on uint64, byte by byte.
RECURSIVE Mul50From(_, _, _)
Mul50From(q, i, carry) ==
  IF i > Len(q) THEN <<>>
  ELSE LET t == q[i] * 50 + carry
       IN <<t % 256>> \o Mul50From(q, i + 1, t \div 256)

\* q is the integer quotient of num by 50.
IsQuotient50(q, num) == \E rem \in 0..49 : Mul50From(q, 1, rem) = num

\* C25: avoidOverflow returns a value that is at most 2^31-1: its input
\* after the least number k of integer divisions by 50 that brings it to
\* 2^31-1 or less, the input itself when k is 0.
C25_LeastDivisionsInRange ==
  (fn = "avoidOverflow" /\ out # <<>>) =>
    /\ ~GtMaxInt32(out[1])
    /\ (~GtMaxInt32(arg) => out[1] = arg)
    /\ \E k \in 0..Len(arg) :
         /\ out[1] = DivTimes(arg, k)
         /\ \A j \in 0..(k - 1) :
              /\ GtMaxInt32(DivTimes(arg, j))
              /\ IsQuotient50(DivTimes(arg, j + 1), DivTimes(arg, j))

\* An input that one division by 50 leaves above 2^31-1 was divided twice.
C25_DividedTwice ==
  /\ fn = "avoidOverflow" /\ out # <<>>
  /\ GtMaxInt32(arg) /\ GtMaxInt32(Div50(arg))
  /\ out[1] = Div50(Div50(arg))

\* ------------------------------------------- properties: lookup batches
\* The batches one after the other.
RECURSIVE Flatten(_)
Flatten(ss) == IF ss = <<>> THEN <<>> ELSE Head(ss) \o Flatten(Tail(ss))

\* C26: the batches of a region inference, one after the other, are the
\* addresses of the nodes that have one, in node order; no batch holds more
\* than 100 addresses and the last alone may hold fewer; when every lookup
\* succeeded one getHostByIp call was made for each batch, and when one
\* failed no call was made for the batches after it.
C26_BatchesOfHundred ==
  \A p \in Callers :
    inf[p].pc \in {"tally", "returned"} /\ inf[p].fetches = 1 /\ inf[p].apiNodes = bcsNodes =>
      LET ipSplits == inf[p].ipSplits
      IN /\ Flatten(ipSplits) = SelectSeq(inf[p].apiNodes, LAMBDA ip : ip # "")
         /\ \A b \in DOMAIN ipSplits :
              /\ Len(ipSplits[b]) >= 1 /\ Len(ipSplits[b]) <= 100
              /\ b < Len(ipSplits) => Len(ipSplits[b]) = 100
         /\ (inf[p].pc = "tally" \/ inf[p].assigned # NilCloud) =>
              inf[p].lookups = Len(ipSplits)
         /\ inf[p].lookups <= Len(ipSplits)

\* A cluster of more than two hundred addresses, some nodes without one, was
\* looked up in three calls, the last batch short.
C26_ThreeBatchesLastShort ==
  \E p \in Callers :
    /\ inf[p].pc = "tally"
    /\ Len(inf[p].ipSplits) = 3 /\ inf[p].lookups = 3
    /\ Len(inf[p].ipSplits[3]) < 100
    /\ \E i \in DOMAIN inf[p].apiNodes : inf[p].apiNodes[i] = ""

\* ------------------------------------------- properties: host filter
\* The addresses of the arguments given for cloud c that are IPv6 (v6 true)
\* or are not, in argument order.
IpsOf(c, v6) ==
  LET of == SelectSeq(arg.ips, LAMBDA param :
                        /\ param.BkCloudId = c
                        /\ (param.Ip \in {"fe80::1", "fe80::2"}) = v6)
  IN [i \in DOMAIN of |-> of[i].Ip]

\* The branches the filter is to have: a cloud id and a family with addresses.
Branches == {b \in CloudIds \X BOOLEAN : IpsOf(b[1], b[2]) # <<>>}

\* x is the AND branch of the addresses of cloud c in the family v6.
IsBranch(x, c, v6) ==
  /\ x.condition = "AND"
  /\ Len(x.rules) = (IF c = -1 THEN 1 ELSE 2)
  /\ x.rules[1].field = (IF v6 THEN "bk_host_innerip_v6" ELSE "bk_host_innerip")
  /\ x.rules[1].operator = "in"
  /\ x.rules[1].value = IpsOf(c, v6)
  /\ c # -1 => /\ x.rules[2].field = "bk_cloud_id"
               /\ x.rules[2].operator = "equal"
               /\ x.rules[2].value = c

\* C27: the host filter of processParams has one AND branch for the IPv4 and
\* one for the IPv6 addresses of each cloud id that has any, and no other;
\* one branch alone is the filter, several are the rules of an OR; a branch
\* has the bk_cloud_id rule exactly when its cloud id is not -1.
C27_FilterBranches ==
  (fn = "processParams" /\ out # <<>>) =>
    LET f == out[1].host_property_filter
        conditions == IF Cardinality(Branches) = 1 THEN <<f>> ELSE f.rules
    IN /\ Cardinality(Branches) # 1 => f.condition = "OR"
       /\ Len(conditions) = Cardinality(Branches)
       /\ \A b \in Branches :
            \E i \in DOMAIN conditions : IsBranch(conditions[i], b[1], b[2])

\* A filter of three branches under OR: IPv4 and IPv6 addresses without a
\* cloud id, and an address of cloud 3.
C27_ThreeBranchesUnderOr ==
  /\ fn = "processParams" /\ out # <<>>
  /\ Branches = {<<-1, FALSE>>, <<-1, TRUE>>, <<3, FALSE>>}
  /\ out[1].host_property_filter.condition = "OR"
  /\ Len(out[1].host_property_filter.rules) = 3

\* ------------------------------------------- properties: taints
\* The taints of the node: the maps of its taints list, in order; none when
\* the field is missing or is no list. A field of a taint that is missing or
\* is no string reads as empty.
TaintsOf(Spec) ==
  IF "taints" \in DOMAIN Spec /\ Spec["taints"].t = "list"
    THEN SelectSeq(Spec["taints"].l, LAMBDA e : e.t = "msi")
    ELSE <<>>

FieldOf(e, k) == IF k \in DOMAIN e.m /\ e.m[k].t = "string" THEN e.m[k].v ELSE ""

AllEmpty(e) == FieldOf(e, "key") = "" /\ FieldOf(e, "value") = "" /\ FieldOf(e, "effect") = ""

\* C28: TaintLabels returns, in order, key=value:effect for each taint of the
\* node but those whose key, value and effect are all empty, and the empty
\* list when the node has no taints field or it is no list.
C28_TaintsRendered ==
  (fn = "TaintLabels" /\ out # <<>>) =>
    LET kept == SelectSeq(TaintsOf(arg), LAMBDA e : ~AllEmpty(e))
    IN /\ Len(out[1]) = Len(kept)
       /\ \A i \in DOMAIN kept :
            out[1][i] = FieldOf(kept[i], "key") \o "=" \o FieldOf(kept[i], "value")
                          \o ":" \o FieldOf(kept[i], "effect")

\* A node with an empty taint and the taint role=gpu:NoSchedule got that
\* label alone.
C28_GpuTaintRendered ==
  /\ fn = "TaintLabels" /\ out = << <<"role=gpu:NoSchedule">> >>
  /\ Len(TaintsOf(arg)) = 2 /\ AllEmpty(TaintsOf(arg)[1])

\* ------------------------------------ properties: labels and version token
\* The keys of spec.labels on which the listed resource of usage u departs
\* from the desired document.
LabelsApart(u) ==
  LET want == Desired(u).spec.m.labels.m
      seen == resourceMap[u].obj.spec.m
  IN IF "labels" \notin DOMAIN seen
       THEN DOMAIN want
       ELSE {k \in DOMAIN want :
               k \notin DOMAIN seen.labels.m \/ seen.labels.m[k] # want[k]}

\* C29: when the listed resource departs from the desired one under
\* spec.labels, the comparison of the two answers not equal and the pass
\* updates that resource.
C29_LabelsDifferenceUpdated ==
  (kpc = "returned" /\ kret = "nil" /\ extWrites = 0) =>
    \A u \in processed :
      (resourceMap[u] # NoRes /\ LabelsApart(u) # {}) =>
        /\ ~isSameResourceConfig(Desired(u), resourceMap[u].obj)
        /\ updates[u] = 1

\* A pass ended with nil over a resource whose spec.labels.bk_biz_id was not
\* the desired one: the comparison answered equal and no update was issued.
C29_LabelsDifferenceLeft ==
  /\ kpc = "returned" /\ kret = "nil" /\ extWrites = 0
  /\ \E u \in processed :
       /\ resourceMap[u] # NoRes
       /\ "bk_biz_id" \in LabelsApart(u)
       /\ isSameResourceConfig(Desired(u), resourceMap[u].obj)
       /\ updates[u] = 0 /\ creates[u] = 0

\* C30: the update of ensureDataIdResource carries the resourceVersion that
\* the fetch of the same call read from the cluster, whatever the list held
\* and whatever other writers do before or after the fetch: the fetch hands
\* over the version the cluster holds at that moment, the token is the same
\* from the fetch to the update, and an update is accepted only with it.
C30_UpdateCarriesFetchedToken ==
  [][/\ (kpc = "get" /\ kpc' = "write" /\ ensure'.action = "update") =>
          /\ k8s[ensure.usage] # NoRes
          /\ ensure'.rv = k8s[ensure.usage].rv
     /\ (kpc = "write" /\ kpc' = "write") => ensure' = ensure
     /\ (kpc = "write" /\ ensure.action = "update" /\ k8s' # k8s /\ updates' # updates) =>
          /\ k8s[ensure.usage].rv = ensure.rv
          /\ k8s'[ensure.usage].rv = ensure.rv + 1]_vars

\* Another writer rewrote a listed resource after the list; the update that
\* followed was accepted, so it carried the version of the fetch and not the
\* one of the list.
C30_UpdatedAfterForeignWrite ==
  /\ kpc = "returned" /\ kret = "nil" /\ extWrites = 1
  /\ \E u \in BcsDataTypes :
       /\ resourceMap[u] # NoRes /\ k8s[u] # NoRes
       /\ updates[u] = 1 /\ creates[u] = 0
       /\ k8s[u].rv = resourceMap[u].rv + 2
       /\ k8s[u].obj = Stored(Desired(u), k8s[u].rv)

\* ----------------------------------- properties: termination and the cap
\* No reconcile call of the pass has panicked: each has returned nil or an
\* error, or has not been made.
ReconcilesReturn == \A e \in Ids : result[e] # "panic"

\* C31: under fair scheduling a pass of a fan-out task whose limit is at
\* least 1 and whose reconcile calls all return comes to its return, for any
\* number of entities, more than the limit included.
C31_FanOutPassReturns ==
  []ReconcilesReturn =>
    ((task \in FanOutTasks /\ Cap >= 1) ~> (pc = "returned"))

\* A pass over more entities than its limit has returned nil with every
\* worker finished and the channel empty.
C31_ReturnedOverTheCap ==
  /\ task \in FanOutTasks /\ Cap >= 1 /\ Len(need) > Cap
  /\ ReconcilesReturn
  /\ pc = "returned" /\ ret = "nil"
  /\ \A i \in DOMAIN need : wpc[need[i]] = "done" /\ calls[need[i]] = 1
  /\ ch = 0 /\ wg = 0

\* C32: a fan-out pass whose limit is 0 and whose list holds at least one
\* entity stays at its first ch <- true: no worker has started, no reconcile
\* call has been made and the pass has not returned.
C32_ZeroCapBlocksAtFirstSend ==
  (task \in FanOutTasks /\ Cap = 0 /\ Len(need) >= 1) =>
    /\ pc = "send" /\ idx = 1 /\ ch = 0
    /\ ret = "none"
    /\ \A e \in Ids : wpc[e] = "idle" /\ calls[e] = 0

\* A pass with limit 0 stands at the first send of a list of two entities or
\* more, with the wait group counting all of them.
C32_BlockedBeforeFirstWorker ==
  /\ task \in FanOutTasks /\ Cap = 0
  /\ Len(need) >= 2 /\ wg = Len(need)
  /\ pc = "send" /\ idx = 1
  /\ ~ENABLED Send

\* ------------------------------------ properties: region inference, errors
\* The call of p ended with the error of its fetch or of a lookup.
FailedBeforeWrite(p) ==
  /\ inf[p].pc = "returned" /\ inf[p].ret = "err"
  /\ inf[p].assigned = NilCloud

\* C33: a call whose fetch of the nodes or whose lookup of a batch failed
\* returns the error having written nothing, its row's region still nil, and
\* with no write by another call the stored region is nil for the next call;
\* a call that reaches the tally has had its fetch and the lookup of every
\* batch succeed.
C33_FailureWritesNothing ==
  \A p \in Callers :
    /\ FailedBeforeWrite(p) =>
         /\ inf[p].writes = 0
         /\ inf[p].BkCloudId = NilCloud
         /\ inf[p].lookups <= Len(inf[p].ipSplits)
         /\ dbRow.writes = 0 => dbRow.BkCloudId = NilCloud
    /\ (inf[p].pc = "tally" \/ inf[p].assigned # NilCloud) =>
         /\ inf[p].fetches = 1
         /\ inf[p].lookups = Len(inf[p].ipSplits)
         /\ DOMAIN inf[p].ipMap =
              {ip \in Range(inf[p].apiNodes) \ {""} : cmdbHosts[ip] # NoHost}

\* The lookup of the second of three batches failed: the call returned the
\* error, the stored region is nil, and a later call is computing it again.
C33_SecondBatchFailedLaterPassAgain ==
  \E p, q \in Callers :
    /\ FailedBeforeWrite(p)
    /\ Len(inf[p].ipSplits) = 3 /\ inf[p].lookups = 2
    /\ dbRow.BkCloudId = NilCloud /\ dbRow.writes = 0
    /\ inf[q].pc = "tally" /\ inf[q].lookups = 3

\* C34: the region a call assigns is the region of a host that one of the
\* cluster's nodes resolves to; with no node resolved no region is assigned
\* and none is written.
C34_AssignedIsOfSomeNode ==
  \A p \in Callers :
    inf[p].assigned # NilCloud =>
      \E i \in Resolved(p) : cmdbHosts[inf[p].apiNodes[i]] = inf[p].assigned

\* A call on a cluster none of whose nodes resolves to a host (or that has no
\* node) has written region 0 to the row.
C34_DefaultRegionWritten ==
  \E p \in Callers :
    /\ inf[p].pc = "returned" /\ inf[p].ret = "nil" /\ inf[p].writes = 1
    /\ Resolved(p) = {}
    /\ inf[p].assigned = CloudPtr(0)
    /\ dbRow.BkCloudId = CloudPtr(0)

\* ------------------------------------------- properties: the influx route
\* The places of name in the refresh calls made so far.
PlacesOf(name) == {i \in DOMAIN refreshed : refreshed[i] = name}

BeforeVersion == {"host_info", "cluster_info", "storage", "vm_router"}

\* The pass is past its four query-then-refresh steps and the refresh of the
\* router version.
PastVersion == pc \in {"influx_outer", "influx_tag", "returned"}

\* The router version has been refreshed once, after every refresh made by
\* the four steps before it.
VersionOnceInPlace ==
  /\ Cardinality(PlacesOf("version")) = 1
  /\ \A i \in PlacesOf("version") : \A n \in BeforeVersion : \A j \in PlacesOf(n) : j < i

\* C35: a pass of RefreshInfluxdbRoute refreshes the router version once: it
\* has not done so before the four steps ahead of it are over, each with its
\* refresh made or skipped, it has done so once they are, and under fair
\* scheduling every pass gets there and returns nil, whichever queries failed.
C35_VersionOnceAfterFourSteps ==
  /\ [](task = "RefreshInfluxdbRoute" =>
          /\ ~PastVersion => PlacesOf("version") = {}
          /\ PastVersion => VersionOnceInPlace
          /\ \A n \in BeforeVersion : Cardinality(PlacesOf(n)) <= 1
          /\ pc = "returned" => ret = "nil")
  /\ (task = "RefreshInfluxdbRoute") ~> (pc = "returned" /\ VersionOnceInPlace)

\* A pass returned with the version refreshed once although the queries of
\* the hosts and of the storages had failed and the other two had not.
C35_VersionAfterTwoFailedQueries ==
  /\ task = "RefreshInfluxdbRoute" /\ pc = "returned" /\ ret = "nil"
  /\ SelectSeq(refreshed, LAMBDA n : n \in BeforeVersion \cup {"version"})
       = <<"cluster_info", "vm_router", "version">>

\* ---------------------------------- properties: registration, several calls
\* The call of p created its row and then failed in a CreateDataSource or a
\* CreateCustomGroup.
FailedProvisioning(p) ==
  /\ regs[p].pc = "returned" /\ regs[p].ret = "err" /\ regs[p].why = "provision"

\* C36: a call that fails while provisioning leaves the row it created in the
\* store, with no data id persisted in it; a call whose count found a row is
\* rejected as a duplicate having created and provisioned nothing; and every
\* call that starts after a call has failed that way ends at once with an
\* error, a duplicate rejection whenever its count was read, the rows as they
\* were.
C36_FailedProvisioningKeepsRow ==
  /\ [](\A p \in Registrants :
          /\ FailedProvisioning(p) =>
               /\ regs[p].created
               /\ rowOf[p] = [NoRow EXCEPT !.exists = TRUE]
          /\ regs[p].count >= 1 =>
               /\ regs[p].pc = "returned" /\ regs[p].ret = "err"
               /\ regs[p].why = "duplicate"
               /\ ~regs[p].created /\ regs[p].done = {} /\ rowOf[p] = NoRow)
  /\ [][\A q \in Registrants :
          (/\ regs[q].pc = "idle" /\ regs'[q].pc # "idle"
           /\ \E p \in Registrants : FailedProvisioning(p)) =>
             /\ regs'[q].pc = "returned" /\ regs'[q].ret = "err"
             /\ regs'[q].count # -1 => regs'[q].why = "duplicate"
             /\ rowOf' = rowOf]_vars

\* A call failed after provisioning some usages and not others; its row is
\* stored without data ids and a later call was rejected as a duplicate.
C36_LaterCallRejected ==
  \E p, q \in Registrants :
    /\ FailedProvisioning(p)
    /\ regs[p].done # {} /\ regs[p].cluster # rowOf[p]
    /\ rowOf[p] = [NoRow EXCEPT !.exists = TRUE]
    /\ regs[q].pc = "returned" /\ regs[q].why = "duplicate" /\ regs[q].count = 1

\* C37: whatever the interleaving of the calls for one cluster id, at most
\* one of them creates a row and provisions pipelines; the others fail.
C37_AtMostOneRegistrantCreates ==
  /\ Cardinality({p \in Registrants : regs[p].created}) <= 1
  /\ RowCount <= 1
  /\ \A p, q \in Registrants :
       (p # q /\ regs[p].created /\ regs[q].pc = "returned") => regs[q].ret = "err"

\* Two calls that both counted before either created have each stored a row
\* with the data ids of its own pipelines and returned it.
C37_TwoRowsForOneCluster ==
  \E p, q \in Registrants :
    /\ p # q
    /\ regs[p].count = 0 /\ regs[q].count = 0
    /\ regs[p].ret = "ok" /\ regs[q].ret = "ok"
    /\ rowOf[p].exists /\ rowOf[q].exists
    /\ regs[p].done = BcsDataTypes /\ regs[q].done = BcsDataTypes

\* ------------------------------------------- properties: agent lost events
\* "<cloudid>:<ip>" of a host.
CloudAndIp(host) == FmtD(host.CloudID) \o <<58>> \o host.IP

\* C38: Flat gives one record for each host, in the order of the hosts; the
\* target of a record is the agent id of its host when that is not empty and
\* "<cloudid>:<ip>" otherwise, and is never empty.
C38_TargetIdentifiesHost ==
  (fn = "Flat" /\ out # <<>>) =>
    LET records == out[1]
    IN /\ Len(records) = Len(arg.Hosts)
       /\ \A i \in DOMAIN records :
            /\ records[i].EventDimension.bk_target_ip = arg.Hosts[i].IP
            /\ records[i].Target = (IF arg.Hosts[i].AgentID # <<>>
                                      THEN arg.Hosts[i].AgentID
                                      ELSE CloudAndIp(arg.Hosts[i]))
            /\ records[i].Target # <<>>

\* Flat gave an empty target for a host without agent id and "<cloudid>:<ip>"
\* for a host that has one.
C38_EmptyTargetWithoutAgentId ==
  /\ fn = "Flat" /\ out # <<>> /\ Len(arg.Hosts) = 2 /\ Len(out[1]) = 2
  /\ arg.Hosts[1].AgentID = <<>> /\ out[1][1].Target = <<>>
  /\ arg.Hosts[2].AgentID # <<>> /\ out[1][2].Target = CloudAndIp(arg.Hosts[2])

====
